---- MODULE Spec2Model ----
(***************************************************************************)
(* SmartStock AI: the chat session of ChatInterface.tsx with its three     *)
(* modals, the rendering rule of MessageItem / AnalysisDisplay, and the    *)
(* inventory-sync transaction manager of the backend.                      *)
(*                                                                         *)
(* React state is modelled per component; every handler is one action and  *)
(* every `await` splits a handler into the part before the request and the *)
(* continuation that runs when the request settles.  State updates made in *)
(* one synchronous stretch of a handler are applied together (React 18     *)
(* batches them into one render).                                          *)
(***************************************************************************)
EXTENDS Integers, Sequences, FiniteSets, TLC

\* ------------------------------------------------------------------ bounds
MaxRequests == 2    \* requests issued in one behaviour (chat sends and modal submissions)
MaxRows == 2        \* product rows in CreateProductModal
MaxAddRequests == 4 \* add-product requests CreateProductModal sends in one behaviour
MaxOrders == 2      \* create-order requests received by the backend
NumProducts == 1    \* products listed by the sale modal; products of the backend store
NumListed == 2      \* products listed by EditInventoryModal
MaxTokens == 2      \* tokens the server issues, the stored one included
MaxAuthOps == 3     \* logins, registrations, logouts and rejected chat requests of the user
MaxLoads == 1       \* times EditInventoryModal is opened
MaxSaleLoads == 2   \* loadProducts calls of CreateSaleModal under way at once
MaxEdits == 3       \* form inputs, edit and delete requests of EditInventoryModal

VARIABLES
    \* ChatInterface
    messages, inputValue, isLoading,
    showSaleModal, showProductModal, showEditInventoryModal,
    chatInFlight,      \* pending sendChatMessage calls (closures of handleSendMessage)
    nextId,            \* generateId()
    requestsIssued,    \* number of POST /chat requests sent so far
    modalOps,          \* number of modal submissions so far
    lastOp,            \* the handler that made the last step
    \* CreateSaleModal
    cartLength, saleSubmitting, saleInFlight,
    \* CreateProductModal
    productRows, productSubmitting, productInFlight,
    \* EditInventoryModal
    selectedProduct, editNameFilled, editSubmitting, deleting, confirmDelete,
    editInFlight,
    \* Inventory Store, Order Ledger and the transactions of the backend
    quantity, price, orders, txn, lockHolder, orderRequests,
    \* MessageItem: the message prop of the last render and what it rendered
    renderMessage, rendered,
    \* Inventory Store records and the add / edit / delete flows of the modals
    store,             \* product id -> stored record, or NoRecord
    nextProductId,     \* the id the next created product gets
    invRequests,       \* number of requests the modals have sent
    loads,             \* number of product lists EditInventoryModal has asked for
    editInputs,        \* number of form inputs and requests of EditInventoryModal
    dispatchOutcome,   \* outcome of the last delete-product dispatched from the chat
    addRows,           \* CreateProductModal: products
    addSubmitting, addError,
    addSucceeded,      \* history: places of the rows whose request succeeded since the modal was opened
    saleProducts,      \* CreateSaleModal: products
    cart,              \* CreateSaleModal: cart
    saleError,         \* CreateSaleModal: error
    customerName,      \* CreateSaleModal (revision 1): customerName
    saleLoads,         \* loadProducts calls of CreateSaleModal under way
    saleLoading,       \* CreateSaleModal: loading
    saleRequests,      \* create-order requests the server has not answered yet
    saleResponses,     \* answers to create-order requests that handleSubmit still awaits
    dispatches,        \* Workflow Dispatcher: the requests and where they are
    location,          \* window.location: the page the browser shows
    fetchState,        \* by caller: the fetch of the caller and its response
    thrown,            \* by caller: the error the last fetch left the caller with
    user, token,       \* AuthProvider: user (set or null) and token
    authLoading,       \* AuthProvider: isLoading
    mounted,           \* the effect of AuthProvider on mount has run
    cookies,           \* the cookies auth_token and auth_user
    verifying,         \* tokens with a GET /auth/me of verifyToken in flight
    authRequests,      \* login and register requests in flight
    validTokens,       \* the tokens the server accepts
    issued,            \* number of tokens the server has issued
    authOps,           \* number of operations of the user on the session
    rejected,          \* history: the server has refused the token and no login has succeeded since
    revision,          \* the revision of the modals the page runs, 0 until one is opened
    addLoop,           \* handleSubmit in flight: revision, rows, position, results, failures
    addRequests, addResponses,
    loadInFlight,      \* GET /inventory/products-with-stock responses under way
    editProducts,      \* EditInventoryModal: products
    editSelected,      \* EditInventoryModal: selectedProduct
    editForm, editError,
    editRequests, editResponses

chatVars == <<messages, inputValue, isLoading, chatInFlight, nextId,
              requestsIssued>>
showVars == <<showSaleModal, showProductModal, showEditInventoryModal>>
saleVars == <<cartLength, saleSubmitting, saleInFlight>>
productVars == <<productRows, productSubmitting, productInFlight>>
editVars == <<selectedProduct, editNameFilled, editSubmitting, deleting,
              confirmDelete, editInFlight>>
orderVars == <<quantity, price, orders, txn, lockHolder, orderRequests>>
renderVars == <<renderMessage, rendered>>
invVars == <<store, nextProductId, invRequests, loads, editInputs,
             dispatchOutcome, addRows,
             addSubmitting, addError, addSucceeded, addLoop, addRequests, addResponses,
             loadInFlight, editProducts, editSelected, editForm, editError,
             editRequests, editResponses>>
sessionVars == <<user, token, authLoading, mounted, cookies, verifying,
                 authRequests, validTokens, issued, authOps, rejected>>
authVars == <<location, fetchState, thrown, sessionVars>>
cartVars == <<saleProducts, cart, saleError, customerName, saleLoads,
              saleLoading, saleRequests, saleResponses>>
dispatchVars == <<dispatches>>
vars == <<chatVars, showVars, modalOps, lastOp, saleVars, productVars, editVars,
          orderVars, renderVars, invVars, revision, authVars, cartVars,
          dispatchVars>>

\* --------------------------------------------------------------- ChatMessage
NoData == [kind |-> "undefined", visualizations |-> "absent",
           analysis_type |-> "absent", summary |-> "absent", other |-> FALSE]

\* A ChatMessage; content is the template that produced the text and its
\* argument, charts is the shape of the legacy charts field.
Message(id, role, kind, text, loading, data, charts) ==
    [id |-> id, role |-> role, content |-> [kind |-> kind, text |-> text],
     loading |-> loading, data |-> data, charts |-> charts]

WelcomeMessage == Message(0, "assistant", "welcome", "", FALSE, NoData, "undefined")

\* String.prototype.trim on the texts the input can hold
InputTexts == {"", "  ", " hola "}
Trim(s) == IF s \in {"", "  "} THEN "" ELSE "hola"

\* a quickActions entry that reaches onAction (three of the six open modals)
QuickActionMessages == {"Listar inventario completo con estados de stock"}
Undefined == "undefined"

\* `message || inputValue.trim()`
MessageText(message, input) == IF message # Undefined THEN message ELSE Trim(input)

SendRejected_IgnoresLoading(messageText, loading) == messageText = ""

\* `if (!messageText || isLoading) return`
SendRejected(messageText, loading) == messageText = "" \/ loading

\* prev.slice(0, -1)
SliceDropLast(prev) == SubSeq(prev, 1, Len(prev) - 1)

AppendTurns_UserOnly(prev, userMessage, loadingMessage) == prev \o <<userMessage>>

\* `[...prev, userMessage, loadingMessage]`
AppendTurns(prev, userMessage, loadingMessage) ==
    prev \o <<userMessage, loadingMessage>>

ModalOpen == showSaleModal \/ showProductModal \/ showEditInventoryModal

\* the handler of the last step: handleSendMessage with its argument, or other
Op(name) == [op |-> name, message |-> Undefined]

\* ------------------------------------------------- response payload shapes
DataShapes ==
    {NoData} \cup
    [kind : {"object"},
     visualizations : {"absent", "null", "empty", "nonempty"},
     analysis_type : {"absent", "enhanced_inventory_analysis", "other"},
     summary : {"absent", "no_total_items", "total_items"},
     other : BOOLEAN]
ChartShapes == {"undefined", "empty", "nonempty", "not_array"}

\* the payloads POST /chat answers with in the chat session model
ChatPayloads ==
    {<<NoData, "undefined">>,
     <<[kind |-> "object", visualizations |-> "nonempty",
        analysis_type |-> "enhanced_inventory_analysis",
        summary |-> "total_items", other |-> FALSE], "nonempty">>}

\* --------------------------------------------------------------- ChatInterface
ChatInit ==
    /\ messages = <<WelcomeMessage>>
    /\ inputValue = ""
    /\ isLoading = FALSE
    /\ showSaleModal = FALSE
    /\ showProductModal = FALSE
    /\ showEditInventoryModal = FALSE
    /\ chatInFlight = {}
    /\ nextId = 1
    /\ requestsIssued = 0
    /\ modalOps = 0
    /\ lastOp = Op("other")
    /\ cartLength = 0
    /\ saleSubmitting = FALSE
    /\ saleInFlight = 0
    /\ productRows = <<FALSE>>
    /\ productSubmitting = FALSE
    /\ productInFlight = 0
    /\ selectedProduct = 0
    /\ editNameFilled = FALSE
    /\ editSubmitting = FALSE
    /\ deleting = FALSE
    /\ confirmDelete = FALSE
    /\ editInFlight = {}


\* onChange of the text input (the input is disabled while isLoading and is
\* covered by the overlay of an open modal)
SetInputValue(v) ==
    /\ ~isLoading /\ ~ModalOpen
    /\ v # inputValue
    /\ inputValue' = v
    /\ lastOp' = Op("other")
    /\ UNCHANGED <<orderVars, renderVars, invVars, revision, authVars,
                   cartVars, dispatchVars>>
    /\ UNCHANGED <<messages, isLoading, chatInFlight, nextId, requestsIssued, showVars, modalOps, saleVars, productVars, editVars>>

\* handleSendMessage up to the await: message is undefined (send button,
\* Enter key) or the text of a quick action
HandleSendMessage(message) ==
    LET messageText == MessageText(message, inputValue)
        userMessage == Message(nextId, "user", "user", messageText, FALSE,
                               NoData, "undefined")
        loadingMessage == Message(nextId + 1, "assistant", "placeholder", "",
                                  TRUE, NoData, "undefined")
    IN  /\ ~ModalOpen
        /\ requestsIssued + modalOps < MaxRequests
        /\ lastOp' = [op |-> "handleSendMessage", message |-> message]
        /\ UNCHANGED <<orderVars, renderVars, invVars, revision, authVars,
                   cartVars, dispatchVars>>
        /\ IF SendRejected(messageText, isLoading)
           THEN UNCHANGED chatVars
           ELSE /\ messages' = AppendTurns(messages, userMessage, loadingMessage)
                /\ inputValue' = ""
                /\ isLoading' = TRUE
                /\ nextId' = nextId + 2
                /\ requestsIssued' = requestsIssued + 1
                /\ chatInFlight' = chatInFlight \cup
                       {[placeholder |-> loadingMessage.id, text |-> messageText]}
        /\ UNCHANGED <<showVars, modalOps, saleVars, productVars, editVars>>

\* the try branch after `await sendChatMessage(...)` plus finally
ChatResponse(req, payload) ==
    LET assistantMessage == Message(nextId, "assistant", "response", req.text,
                                    FALSE, payload[1], payload[2])
    IN  /\ req \in chatInFlight
        /\ messages' = SliceDropLast(messages) \o <<assistantMessage>>
        /\ isLoading' = FALSE
        /\ nextId' = nextId + 1
        /\ chatInFlight' = chatInFlight \ {req}
        /\ lastOp' = Op("other")
        /\ UNCHANGED <<orderVars, renderVars, invVars, revision, authVars,
                   cartVars, dispatchVars>>
        /\ UNCHANGED <<inputValue, requestsIssued, showVars, modalOps,
                       saleVars, productVars, editVars>>

\* the failures sendChatMessage throws (ApiClient.request)
ChatFailures == {"Sesion expirada", "HTTP error"}

ChatError_LeavesLoading(req, failure) ==
    LET errorMessage == Message(nextId, "assistant", "error", failure, FALSE,
                                NoData, "undefined")
    IN  /\ req \in chatInFlight
        /\ messages' = SliceDropLast(messages) \o <<errorMessage>>
        /\ nextId' = nextId + 1
        /\ chatInFlight' = chatInFlight \ {req}
        /\ lastOp' = Op("other")
        /\ UNCHANGED <<orderVars, renderVars, invVars, revision, authVars,
                   cartVars, dispatchVars>>
        /\ UNCHANGED <<inputValue, isLoading, requestsIssued, showVars, modalOps,
                       saleVars, productVars, editVars>>

\* the catch branch plus finally
ChatError(req, failure) ==
    LET errorMessage == Message(nextId, "assistant", "error", failure, FALSE,
                                NoData, "undefined")
    IN  /\ req \in chatInFlight
        /\ messages' = SliceDropLast(messages) \o <<errorMessage>>
        /\ isLoading' = FALSE
        /\ nextId' = nextId + 1
        /\ chatInFlight' = chatInFlight \ {req}
        /\ lastOp' = Op("other")
        /\ UNCHANGED <<orderVars, renderVars, invVars, revision, authVars,
                   cartVars, dispatchVars>>
        /\ UNCHANGED <<inputValue, requestsIssued, showVars, modalOps,
                       saleVars, productVars, editVars>>

\* handleSaleCreated / handleProductsCreated / handleProductEdited
AppendAssistant(prev, id, kind, text) ==
    prev \o <<Message(id, "assistant", kind, text, FALSE, NoData, "undefined")>>

\* handleCreateSaleClick / handleCreateProductClick / handleEditInventoryClick:
\* the QuickActions buttons are disabled while isLoading
QuickActionsEnabled == ~isLoading /\ ~ModalOpen

\* ------------------------------------------------------------ CreateSaleModal
\* 'Crear Venta' quick action; the effect on isOpen empties the cart
HandleCreateSaleClick ==
    /\ QuickActionsEnabled
    /\ showSaleModal' = TRUE
    /\ cartLength' = 0
    /\ lastOp' = Op("other")
    /\ UNCHANGED <<orderVars, renderVars, invVars, revision, authVars,
                   cartVars, dispatchVars>>
    /\ UNCHANGED <<chatVars, showProductModal, showEditInventoryModal, modalOps,
                   saleSubmitting, saleInFlight, productVars, editVars>>

\* addToCart of a product that is not in the cart yet
AddToCart ==
    /\ showSaleModal
    /\ cartLength < NumProducts
    /\ cartLength' = cartLength + 1
    /\ lastOp' = Op("other")
    /\ UNCHANGED <<orderVars, renderVars, invVars, revision, authVars,
                   cartVars, dispatchVars>>
    /\ UNCHANGED <<chatVars, showVars, modalOps, saleSubmitting, saleInFlight,
                   productVars, editVars>>

RemoveFromCart ==
    /\ showSaleModal
    /\ cartLength > 0
    /\ cartLength' = cartLength - 1
    /\ lastOp' = Op("other")
    /\ UNCHANGED <<orderVars, renderVars, invVars, revision, authVars,
                   cartVars, dispatchVars>>
    /\ UNCHANGED <<chatVars, showVars, modalOps, saleSubmitting, saleInFlight,
                   productVars, editVars>>

\* `disabled={cart.length === 0 || submitting}` of the 'Crear Venta' button
SaleSubmitDisabled == cartLength = 0 \/ saleSubmitting

\* CreateSaleModal.handleSubmit up to the await
SaleHandleSubmit ==
    /\ showSaleModal
    /\ ~SaleSubmitDisabled
    /\ requestsIssued + modalOps < MaxRequests
    /\ saleSubmitting' = TRUE
    /\ saleInFlight' = saleInFlight + 1
    /\ modalOps' = modalOps + 1
    /\ lastOp' = Op("other")
    /\ UNCHANGED <<orderVars, renderVars, invVars, revision, authVars,
                   cartVars, dispatchVars>>
    /\ UNCHANGED <<chatVars, showVars, cartLength, productVars, editVars>>

\* the X and Cancelar buttons (onClose); they are never disabled
SaleClose ==
    /\ showSaleModal
    /\ showSaleModal' = FALSE
    /\ lastOp' = Op("other")
    /\ UNCHANGED <<orderVars, renderVars, invVars, revision, authVars,
                   cartVars, dispatchVars>>
    /\ UNCHANGED <<chatVars, showProductModal, showEditInventoryModal, modalOps,
                   saleVars, productVars, editVars>>

\* response.ok: onSaleCreated(message); onClose(); finally setSubmitting(false)
SaleSubmitOk ==
    /\ saleInFlight > 0
    /\ messages' = AppendAssistant(messages, nextId, "sale", "")
    /\ nextId' = nextId + 1
    /\ showSaleModal' = FALSE
    /\ saleSubmitting' = FALSE
    /\ saleInFlight' = saleInFlight - 1
    /\ lastOp' = Op("other")
    /\ UNCHANGED <<orderVars, renderVars, invVars, revision, authVars,
                   cartVars, dispatchVars>>
    /\ UNCHANGED <<inputValue, isLoading, chatInFlight, requestsIssued,
                   showProductModal, showEditInventoryModal, modalOps,
                   cartLength, productVars, editVars>>

\* !response.ok or a rejected fetch: setError; finally setSubmitting(false)
SaleSubmitFail ==
    /\ saleInFlight > 0
    /\ saleSubmitting' = FALSE
    /\ saleInFlight' = saleInFlight - 1
    /\ lastOp' = Op("other")
    /\ UNCHANGED <<orderVars, renderVars, invVars, revision, authVars,
                   cartVars, dispatchVars>>
    /\ UNCHANGED <<chatVars, showVars, modalOps, cartLength, productVars,
                   editVars>>

\* --------------------------------------------------------- CreateProductModal
\* 'Anadir Producto' quick action
HandleCreateProductClick ==
    /\ QuickActionsEnabled
    /\ showProductModal' = TRUE
    /\ lastOp' = Op("other")
    /\ UNCHANGED <<orderVars, renderVars, invVars, revision, authVars,
                   cartVars, dispatchVars>>
    /\ UNCHANGED <<chatVars, showSaleModal, showEditInventoryModal, modalOps,
                   saleVars, productVars, editVars>>

\* addNewProduct: a row with an empty name (not valid yet)
AddNewProduct ==
    /\ showProductModal /\ ~productSubmitting
    /\ Len(productRows) < MaxRows
    /\ productRows' = Append(productRows, FALSE)
    /\ lastOp' = Op("other")
    /\ UNCHANGED <<orderVars, renderVars, invVars, revision, authVars,
                   cartVars, dispatchVars>>
    /\ UNCHANGED <<chatVars, showVars, modalOps, saleVars, productSubmitting,
                   productInFlight, editVars>>

\* updateProduct: the row becomes valid or invalid (isProductValid)
UpdateProduct(i, valid) ==
    /\ showProductModal /\ ~productSubmitting
    /\ i \in 1..Len(productRows)
    /\ productRows[i] # valid
    /\ productRows' = [productRows EXCEPT ![i] = valid]
    /\ lastOp' = Op("other")
    /\ UNCHANGED <<orderVars, renderVars, invVars, revision, authVars,
                   cartVars, dispatchVars>>
    /\ UNCHANGED <<chatVars, showVars, modalOps, saleVars, productSubmitting,
                   productInFlight, editVars>>

\* `products.some(isProductValid) && !submitting`
CanSubmit == (\E i \in 1..Len(productRows) : productRows[i]) /\ ~productSubmitting

\* validateProducts(): no row has an error
ProductsValid == \A i \in 1..Len(productRows) : productRows[i]

\* CreateProductModal.handleSubmit up to the first await
ProductHandleSubmit ==
    /\ showProductModal
    /\ CanSubmit
    /\ requestsIssued + modalOps < MaxRequests
    /\ lastOp' = Op("other")
    /\ UNCHANGED <<orderVars, renderVars, invVars, revision, authVars,
                   cartVars, dispatchVars>>
    /\ IF ProductsValid
       THEN /\ productSubmitting' = TRUE
            /\ productInFlight' = productInFlight + 1
            /\ modalOps' = modalOps + 1
       ELSE UNCHANGED <<productSubmitting, productInFlight, modalOps>>
    /\ UNCHANGED <<chatVars, showVars, saleVars, productRows, editVars>>

\* handleClose (X, Cancelar: disabled while submitting)
ProductHandleClose ==
    /\ showProductModal /\ ~productSubmitting
    /\ productRows' = <<FALSE>>
    /\ showProductModal' = FALSE
    /\ lastOp' = Op("other")
    /\ UNCHANGED <<orderVars, renderVars, invVars, revision, authVars,
                   cartVars, dispatchVars>>
    /\ UNCHANGED <<chatVars, showSaleModal, showEditInventoryModal, modalOps,
                   saleVars, productSubmitting, productInFlight, editVars>>

\* the end of the loop over the rows: onProductsCreated(message), then
\* handleClose() when no request failed; finally setSubmitting(false)
ProductBatchDone(failures) ==
    /\ productInFlight > 0
    /\ failures \in 0..Len(productRows)
    /\ messages' = AppendAssistant(messages, nextId, "products", "")
    /\ nextId' = nextId + 1
    /\ productSubmitting' = FALSE
    /\ productInFlight' = productInFlight - 1
    /\ IF failures = 0
       THEN /\ productRows' = <<FALSE>>
            /\ showProductModal' = FALSE
       ELSE UNCHANGED <<productRows, showProductModal>>
    /\ lastOp' = Op("other")
    /\ UNCHANGED <<orderVars, renderVars, invVars, revision, authVars,
                   cartVars, dispatchVars>>
    /\ UNCHANGED <<inputValue, isLoading, chatInFlight, requestsIssued,
                   showSaleModal, showEditInventoryModal, modalOps, saleVars,
                   editVars>>

\* removeProduct: only while more than one row is left
RemoveProduct(i) ==
    /\ showProductModal /\ ~productSubmitting
    /\ i \in 1..Len(productRows)
    /\ Len(productRows) > 1
    /\ productRows' = SubSeq(productRows, 1, i - 1) \o
                      SubSeq(productRows, i + 1, Len(productRows))
    /\ lastOp' = Op("other")
    /\ UNCHANGED <<orderVars, renderVars, invVars, revision, authVars,
                   cartVars, dispatchVars>>
    /\ UNCHANGED <<chatVars, showVars, modalOps, saleVars, productSubmitting,
                   productInFlight, editVars>>

\* --------------------------------------------------------- EditInventoryModal
ProductIds == 1..NumListed
NoProduct == 0

\* 'Editar Inventario' quick action
HandleEditInventoryClick ==
    /\ QuickActionsEnabled
    /\ showEditInventoryModal' = TRUE
    /\ lastOp' = Op("other")
    /\ UNCHANGED <<orderVars, renderVars, invVars, revision, authVars,
                   cartVars, dispatchVars>>
    /\ UNCHANGED <<chatVars, showSaleModal, showProductModal, modalOps,
                   saleVars, productVars, editVars>>

SelectProduct_KeepsConfirmation(p) ==
    /\ showEditInventoryModal
    /\ p \in ProductIds
    /\ p # selectedProduct
    /\ selectedProduct' = p
    /\ editNameFilled' = TRUE
    /\ lastOp' = Op("other")
    /\ UNCHANGED <<orderVars, renderVars, invVars, revision, authVars,
                   cartVars, dispatchVars>>
    /\ UNCHANGED <<chatVars, showVars, modalOps, saleVars, productVars,
                   editSubmitting, deleting, confirmDelete,
                   editInFlight>>

\* click on a product of the list; the effect on selectedProduct fills the
\* form from the product and clears confirmDelete
SelectProduct(p) ==
    /\ showEditInventoryModal
    /\ p \in ProductIds
    /\ p # selectedProduct
    /\ selectedProduct' = p
    /\ editNameFilled' = TRUE
    /\ confirmDelete' = FALSE
    /\ lastOp' = Op("other")
    /\ UNCHANGED <<orderVars, renderVars, invVars, revision, authVars,
                   cartVars, dispatchVars>>
    /\ UNCHANGED <<chatVars, showVars, modalOps, saleVars, productVars,
                   editSubmitting, deleting, editInFlight>>

\* onChange of the name field
SetEditName(filled) ==
    /\ showEditInventoryModal
    /\ selectedProduct # NoProduct
    /\ filled # editNameFilled
    /\ editNameFilled' = filled
    /\ lastOp' = Op("other")
    /\ UNCHANGED <<orderVars, renderVars, invVars, revision, authVars,
                   cartVars, dispatchVars>>
    /\ UNCHANGED <<chatVars, showVars, modalOps, saleVars, productVars,
                   selectedProduct, editSubmitting, deleting, confirmDelete,
                   editInFlight>>

\* `disabled={submitting || !editForm.name.trim()}` of 'Guardar Cambios'
EditSubmitDisabled == editSubmitting \/ ~editNameFilled

\* EditInventoryModal.handleSubmit up to the await
EditHandleSubmit ==
    /\ showEditInventoryModal
    /\ selectedProduct # NoProduct
    /\ ~EditSubmitDisabled
    /\ requestsIssued + modalOps < MaxRequests
    /\ editSubmitting' = TRUE
    /\ editInFlight' = editInFlight \cup
                       {[kind |-> "edit", product |-> selectedProduct]}
    /\ modalOps' = modalOps + 1
    /\ lastOp' = Op("other")
    /\ UNCHANGED <<orderVars, renderVars, invVars, revision, authVars,
                   cartVars, dispatchVars>>
    /\ UNCHANGED <<chatVars, showVars, saleVars, productVars, selectedProduct,
                   editNameFilled, deleting, confirmDelete>>

\* EditInventoryModal.handleClose (X, Cancelar: never disabled)
EditHandleClose ==
    /\ showEditInventoryModal
    /\ selectedProduct' = NoProduct
    /\ editNameFilled' = FALSE
    /\ showEditInventoryModal' = FALSE
    /\ lastOp' = Op("other")
    /\ UNCHANGED <<orderVars, renderVars, invVars, revision, authVars,
                   cartVars, dispatchVars>>
    /\ UNCHANGED <<chatVars, showSaleModal, showProductModal, modalOps,
                   saleVars, productVars, editSubmitting, deleting,
                   confirmDelete, editInFlight>>

\* response.ok: onProductEdited(result.response); handleClose(); finally
EditSubmitOk(req) ==
    /\ req \in editInFlight /\ req.kind = "edit"
    /\ messages' = AppendAssistant(messages, nextId, "edit", "")
    /\ nextId' = nextId + 1
    /\ selectedProduct' = NoProduct
    /\ editNameFilled' = FALSE
    /\ showEditInventoryModal' = FALSE
    /\ editSubmitting' = FALSE
    /\ editInFlight' = editInFlight \ {req}
    /\ lastOp' = Op("other")
    /\ UNCHANGED <<orderVars, renderVars, invVars, revision, authVars,
                   cartVars, dispatchVars>>
    /\ UNCHANGED <<inputValue, isLoading, chatInFlight, requestsIssued,
                   showSaleModal, showProductModal, modalOps, saleVars,
                   productVars, deleting, confirmDelete>>

\* !response.ok or a rejected fetch: setError; finally setSubmitting(false)
EditSubmitFail(req) ==
    /\ req \in editInFlight /\ req.kind = "edit"
    /\ editSubmitting' = FALSE
    /\ editInFlight' = editInFlight \ {req}
    /\ lastOp' = Op("other")
    /\ UNCHANGED <<orderVars, renderVars, invVars, revision, authVars,
                   cartVars, dispatchVars>>
    /\ UNCHANGED <<chatVars, showVars, modalOps, saleVars, productVars,
                   selectedProduct, editNameFilled, deleting, confirmDelete>>

\* handleDelete up to the await: the first click only arms confirmDelete
HandleDelete ==
    /\ showEditInventoryModal
    /\ selectedProduct # NoProduct
    /\ ~deleting
    /\ lastOp' = Op("other")
    /\ UNCHANGED <<orderVars, renderVars, invVars, revision, authVars,
                   cartVars, dispatchVars>>
    /\ IF ~confirmDelete
       THEN /\ confirmDelete' = TRUE
            /\ UNCHANGED <<deleting, editInFlight, modalOps>>
       ELSE /\ requestsIssued + modalOps < MaxRequests
            /\ deleting' = TRUE
            /\ editInFlight' = editInFlight \cup
                               {[kind |-> "delete", product |-> selectedProduct]}
            /\ modalOps' = modalOps + 1
            /\ UNCHANGED confirmDelete
    /\ UNCHANGED <<chatVars, showVars, saleVars, productVars, selectedProduct,
                   editNameFilled, editSubmitting>>

\* response.ok: onProductEdited(result.message); the product leaves the list
DeleteOk(req) ==
    /\ req \in editInFlight /\ req.kind = "delete"
    /\ messages' = AppendAssistant(messages, nextId, "edit", "")
    /\ nextId' = nextId + 1
    /\ selectedProduct' = NoProduct
    /\ confirmDelete' = FALSE
    /\ deleting' = FALSE
    /\ editInFlight' = editInFlight \ {req}
    /\ lastOp' = Op("other")
    /\ UNCHANGED <<orderVars, renderVars, invVars, revision, authVars,
                   cartVars, dispatchVars>>
    /\ UNCHANGED <<inputValue, isLoading, chatInFlight, requestsIssued,
                   showVars, modalOps, saleVars, productVars, editNameFilled,
                   editSubmitting>>

\* !response.ok or a rejected fetch: setError; finally setDeleting(false)
DeleteFail(req) ==
    /\ req \in editInFlight /\ req.kind = "delete"
    /\ deleting' = FALSE
    /\ editInFlight' = editInFlight \ {req}
    /\ lastOp' = Op("other")
    /\ UNCHANGED <<orderVars, renderVars, invVars, revision, authVars,
                   cartVars, dispatchVars>>
    /\ UNCHANGED <<chatVars, showVars, modalOps, saleVars, productVars,
                   selectedProduct, editNameFilled, editSubmitting,
                   confirmDelete>>

\* ------------------------------------------ Inventory-Sync Transaction Manager
\* (spec.md 3, 4.1 and 5: the backend is not part of the sources)
StoreIds == 1..NumProducts
LineCounts == {1, 2}                  \* line items of one order
MissingId == NumProducts + 1          \* a product_id that resolves to no product
Clients == {"c1", "c2"}               \* concurrent create-order callers
NoClient == "none"

\* the Product rows of the scenarios of spec.md 8
InitialQuantity(p) == IF p = 1 THEN 5 ELSE 10
InitialPrice(p) == IF p = 1 THEN 1000 ELSE 50
OrderQuantities == {3, 10}
PriceEdits == {0, 1200}

Line(p, q) == [product_id |-> p, quantity |-> q]

\* orders `items`: non-empty, quantity >= 1, no product_id in two lines
OrderItems ==
    {items \in UNION {[1..n -> [product_id : StoreIds \cup {MissingId},
                                quantity : OrderQuantities]] : n \in LineCounts} :
        \A i, j \in DOMAIN items :
            i # j => items[i].product_id # items[j].product_id}

IdleTxn == [pc |-> "idle", items |-> <<>>, result |-> "none"]

OrderInit ==
    /\ quantity = [p \in StoreIds |-> InitialQuantity(p)]
    /\ price = [p \in StoreIds |-> InitialPrice(p)]
    /\ orders = <<>>
    /\ txn = [c \in Clients |-> IdleTxn]
    /\ lockHolder = NoClient
    /\ orderRequests = 0

LineOk_IgnoresStock(q, line) == line.product_id \in DOMAIN q

\* validation of one line: the product exists and the requested quantity does
\* not exceed its current quantity
LineOk(q, line) ==
    /\ line.product_id \in DOMAIN q
    /\ line.quantity <= q[line.product_id]

\* validation pass: every line, before any mutation
ValidationPasses(q, items) == \A i \in DOMAIN items : LineOk(q, items[i])

LockFree_Always(holder) == TRUE

\* the transaction boundary: one create-order holds the product rows at a time
LockFree(holder) == holder = NoClient

Subtotal_IgnoresQuantity(unitPrice, qty) == unitPrice

\* subtotal = price * quantity
Subtotal(unitPrice, qty) == unitPrice * qty

RECURSIVE TotalAmount(_, _)
TotalAmount(pr, items) ==
    IF items = <<>> THEN 0
    ELSE Subtotal(pr[Head(items).product_id], Head(items).quantity)
         + TotalAmount(pr, Tail(items))

\* commit pass: every line decrements its product
RECURSIVE Decrement(_, _)
Decrement(q, items) ==
    IF items = <<>> THEN q
    ELSE Decrement([q EXCEPT ![Head(items).product_id] = @ - Head(items).quantity],
                   Tail(items))

\* InventoryUpdate per line (reconciliation record)
InventoryUpdates(q, items) ==
    [i \in DOMAIN items |->
        [product_id |-> items[i].product_id,
         previous_quantity |-> q[items[i].product_id],
         new_quantity |-> q[items[i].product_id] - items[i].quantity,
         quantity_sold |-> items[i].quantity]]

\* POST /sales/create-order-with-inventory-sync arrives
ReceiveOrder(c, items) ==
    /\ txn[c].pc = "idle"
    /\ orderRequests < MaxOrders
    /\ txn' = [txn EXCEPT ![c] = [pc |-> "received", items |-> items,
                                   result |-> "none"]]
    /\ orderRequests' = orderRequests + 1
    /\ UNCHANGED <<quantity, price, orders, lockHolder>>
    /\ UNCHANGED <<chatVars, showVars, modalOps, lastOp, saleVars, productVars,
                   editVars, renderVars, invVars, revision, authVars,
                   cartVars, dispatchVars>>

\* the transaction over the affected rows begins
BeginTransaction(c) ==
    /\ txn[c].pc = "received"
    /\ LockFree(lockHolder)
    /\ lockHolder' = c
    /\ txn' = [txn EXCEPT ![c].pc = "validating"]
    /\ UNCHANGED <<quantity, price, orders, orderRequests>>
    /\ UNCHANGED <<chatVars, showVars, modalOps, lastOp, saleVars, productVars,
                   editVars, renderVars, invVars, revision, authVars,
                   cartVars, dispatchVars>>

\* step 2: the validation pass; a failing line aborts the whole operation
ValidateOrder(c) ==
    /\ txn[c].pc = "validating"
    /\ IF ValidationPasses(quantity, txn[c].items)
       THEN txn' = [txn EXCEPT ![c].pc = "committing"]
       ELSE txn' = [txn EXCEPT ![c].pc = "idle", ![c].result = "rejected"]
    /\ lockHolder' = IF ValidationPasses(quantity, txn[c].items)
                     THEN lockHolder
                     ELSE IF lockHolder = c THEN NoClient ELSE lockHolder
    /\ UNCHANGED <<quantity, price, orders, orderRequests>>
    /\ UNCHANGED <<chatVars, showVars, modalOps, lastOp, saleVars, productVars,
                   editVars, renderVars, invVars, revision, authVars,
                   cartVars, dispatchVars>>

\* steps 3 and 4: decrement, total, order_number, persist, reconciliation list
CommitOrder(c) ==
    LET items == txn[c].items
    IN  /\ txn[c].pc = "committing"
        /\ quantity' = Decrement(quantity, items)
        /\ orders' = Append(orders,
               [order_number |-> Len(orders) + 1,
                items |-> items,
                price_at_commit |-> price,
                total_amount |-> TotalAmount(price, items),
                inventory_updates |-> InventoryUpdates(quantity, items)])
        /\ txn' = [txn EXCEPT ![c].pc = "idle", ![c].result = "committed"]
        /\ lockHolder' = IF lockHolder = c THEN NoClient ELSE lockHolder
        /\ UNCHANGED <<price, orderRequests>>
        /\ UNCHANGED <<chatVars, showVars, modalOps, lastOp, saleVars,
                       productVars, editVars, renderVars, invVars, revision, authVars,
                   cartVars, dispatchVars>>

\* edit_product with a sparse patch that carries only price; price <= 0 is
\* rejected
EditProductPrice(p, newPrice) ==
    /\ p \in StoreIds
    /\ newPrice > 0
    /\ price[p] # newPrice
    /\ price' = [price EXCEPT ![p] = newPrice]
    /\ UNCHANGED <<quantity, orders, txn, lockHolder, orderRequests>>
    /\ UNCHANGED <<chatVars, showVars, modalOps, lastOp, saleVars, productVars,
                   editVars, renderVars, invVars, revision, authVars,
                   cartVars, dispatchVars>>

OrderNext ==
    \/ \E c \in Clients, items \in OrderItems : ReceiveOrder(c, items)
    \/ \E c \in Clients : BeginTransaction(c)
    \/ \E c \in Clients : ValidateOrder(c)
    \/ \E c \in Clients : CommitOrder(c)
    \/ \E p \in StoreIds, newPrice \in PriceEdits : EditProductPrice(p, newPrice)

\* ------------------------------------------------ MessageItem, AnalysisDisplay
\* JavaScript truthiness of data.visualizations (an empty array is truthy)
Truthy(visualizations) == visualizations \in {"empty", "nonempty"}

\* Object.keys(message.data).length > 0
HasKeys(data) ==
    \/ data.visualizations # "absent"
    \/ data.analysis_type # "absent"
    \/ data.summary # "absent"
    \/ data.other

MountsAnalysisDisplay_IgnoresRole(message) ==
    /\ message.data.kind = "object"
    /\ HasKeys(message.data)

\* `message.data && !isUser && Object.keys(message.data).length > 0`
MountsAnalysisDisplay(message) ==
    /\ message.data.kind = "object"
    /\ message.role # "user"
    /\ HasKeys(message.data)

\* AnalysisDisplay: isInventoryAnalysis
IsInventoryAnalysis(data) ==
    \/ data.analysis_type = "enhanced_inventory_analysis"
    \/ data.summary = "total_items"

\* AnalysisDisplay returns the summary card and its sections
RendersAnalysisSummary(message) ==
    MountsAnalysisDisplay(message) /\ IsInventoryAnalysis(message.data)

RendersChartPanel_AnyList(message) ==
    /\ RendersAnalysisSummary(message)
    /\ Truthy(message.data.visualizations)

\* `data.visualizations && data.visualizations.length > 0` inside AnalysisDisplay
RendersChartPanel(message) ==
    /\ RendersAnalysisSummary(message)
    /\ Truthy(message.data.visualizations)
    /\ message.data.visualizations = "nonempty"

RendersLegacyCharts_IgnoresVisualizations(message) ==
    /\ message.role # "user"
    /\ message.charts = "nonempty"

\* the legacy block of MessageItem: one ChartDisplay per entry of charts
RendersLegacyCharts(message) ==
    /\ message.role # "user"
    /\ message.charts = "nonempty"
    /\ ~(message.data.kind = "object" /\ Truthy(message.data.visualizations))

RenderMessageItem(message) ==
    {"text"}
    \cup (IF message.role # "user" /\ message.loading THEN {"spinner"} ELSE {})
    \cup (IF RendersAnalysisSummary(message) THEN {"analysis_summary"} ELSE {})
    \cup (IF RendersChartPanel(message) THEN {"chart_panel"} ELSE {})
    \cup (IF RendersLegacyCharts(message) THEN {"legacy_charts"} ELSE {})

\* every ChatMessage the component can be given
MessageShapes ==
    {Message(0, r, IF r = "user" THEN "user" ELSE "response", "", l, d, c) :
        r \in {"user", "assistant"}, l \in BOOLEAN, d \in DataShapes,
        c \in ChartShapes}

RenderInit ==
    /\ renderMessage = WelcomeMessage
    /\ rendered = RenderMessageItem(WelcomeMessage)

\* MessageItem is rendered with a message prop
Render(message) ==
    /\ renderMessage' = message
    /\ rendered' = RenderMessageItem(message)
    /\ UNCHANGED <<chatVars, showVars, modalOps, lastOp, saleVars, productVars,
                   editVars, orderVars, invVars, revision, authVars,
                   cartVars, dispatchVars>>

RenderNext == \E message \in MessageShapes : Render(message)

\* ------------------------------------------- Inventory Store: product records
\* parseFloat / parseInt of a text that is not a number
NaN == -999
\* an optional field that is undefined (ProductToAdd.price, .category)
NoValue == -998

\* the decimal numerals the forms and the store exchange
Numerals ==
    {<<0, "0">>, <<1, "1">>, <<2, "2">>, <<4, "4">>, <<5, "5">>, <<50, "50">>,
     <<1000, "1000">>, <<1200, "1200">>}

\* Number.prototype.toString
NumberToString(n) == (CHOOSE pair \in Numerals : pair[1] = n)[2]

\* parseFloat and parseInt on the texts a number input can hold
ParseNumber(text) ==
    IF \E pair \in Numerals : pair[2] = text
    THEN (CHOOSE pair \in Numerals : pair[2] = text)[1]
    ELSE NaN

\* String.prototype.trim on the names a name input can hold
TrimName(name) == name

InvIds == 1..(MaxRequests + 1)

Product(name, unitPrice, qty, category, minStock, maxStock) ==
    [exists |-> TRUE, name |-> name, price |-> unitPrice, quantity |-> qty,
     category |-> category, minimum_stock |-> minStock,
     maximum_stock |-> maxStock]

NoRecord ==
    [exists |-> FALSE, name |-> "", price |-> 0, quantity |-> 0,
     category |-> "", minimum_stock |-> NoValue, maximum_stock |-> NoValue]

\* the scenario product of the specification: price 1000, quantity 5
InitialStore ==
    [p \in InvIds |->
        IF p = 1 THEN Product("a", 1000, 5, "Furniture", NoValue, NoValue)
        ELSE NoRecord]

PatchFields == {"name", "price", "quantity", "category", "minimum_stock",
                "maximum_stock"}

\* JSON.stringify writes NaN as null, and a null field of the request body is
\* a field the request does not specify
PresentFields(fields) ==
    {f \in DOMAIN fields : f \in {"name", "category"} \/ fields[f] # NaN}

\* add_product: rejects non-positive price or negative quantity
AddProductRejected(productData) ==
    productData.price <= 0 \/ productData.quantity < 0

\* edit_product: rejects edits that would set price <= 0 or quantity < 0
EditProductRejected(fields) ==
    \/ "price" \in PresentFields(fields) /\ fields["price"] <= 0
    \/ "quantity" \in PresentFields(fields) /\ fields["quantity"] < 0

\* edit_product: applies only the fields present in the request
ApplyPatch(record, fields) ==
    [f \in DOMAIN record |->
        IF f \in PresentFields(fields) THEN fields[f] ELSE record[f]]

\* ---------------------------------------------------- category name mappings
\* CATEGORIES of EditInventoryModal: storage name -> display name
EditCategories ==
    {<<"Furniture", "Muebles">>, <<"Other", "Otros">>}

\* CATEGORIES of CreateProductModal, by revision: option value -> stored name
AddCategories(rev) ==
    IF rev = 1
    THEN {<<"Muebles", "Muebles">>, <<"Otros", "Otros">>}
    ELSE {<<"Muebles", "Furniture">>, <<"Otros", "Other">>}

Lookup(table, key, default) ==
    IF \E pair \in table : pair[1] = key
    THEN (CHOOSE pair \in table : pair[1] = key)[2]
    ELSE default

\* `CATEGORIES[selectedProduct.category] || selectedProduct.category`
ToDisplay(category) == Lookup(EditCategories, category, category)

\* `Object.keys(CATEGORIES).find(key => CATEGORIES[key] === display) || display`
ToStorage(display) ==
    IF \E pair \in EditCategories : pair[2] = display
    THEN (CHOOSE pair \in EditCategories : pair[2] = display)[1]
    ELSE display

\* `CATEGORIES[product.category] || 'Other'` (second revision: 'Other' also
\* when no category was chosen)
AddCategory(rev, category) == Lookup(AddCategories(rev), category, "Other")

\* ------------------------------------------- EditInventoryModal, field level
\* the variables of the chat session no step of the inventory flows changes
invFrame == <<inputValue, isLoading, chatInFlight, requestsIssued,
              showSaleModal, modalOps, lastOp, saleVars, productVars,
              selectedProduct, editNameFilled, editInFlight, orderVars,
              renderVars, authVars, cartVars, dispatchVars>>

\* a Product of GET /inventory/products-with-stock
LoadedProduct(p, record) ==
    [id |-> p, name |-> record.name, price |-> record.price,
     category |-> record.category, stock_quantity |-> record.quantity]

Snapshot(s) == {LoadedProduct(p, s[p]) : p \in {q \in InvIds : s[q].exists}}

NoSelection ==
    [id |-> 0, name |-> "", price |-> 0, category |-> "", stock_quantity |-> 0]

EmptyForm ==
    [name |-> "", price |-> "", quantity |-> "", category |-> "",
     minimum_stock |-> "", maximum_stock |-> ""]

\* useEffect on selectedProduct: the form is filled from the loaded product
FormOf(product) ==
    [name |-> product.name,
     price |-> NumberToString(product.price),
     quantity |-> NumberToString(product.stock_quantity),
     category |-> ToDisplay(product.category),
     minimum_stock |-> "",
     maximum_stock |-> ""]

\* what the inputs of the form can be set to
FormTexts(field) ==
    CASE field = "name" -> {"", "a", "b"}
      [] field = "price" -> {"", "0", "1000", "1200"}
      [] field = "quantity" -> {"", "4", "5"}
      [] field = "category" -> {pair[2] : pair \in EditCategories}
      [] OTHER -> {"", "0", "2"}

ChangedFields_AllCoreFields(form, product) ==
    {"name", "price", "quantity", "category"}
    \cup {f \in {"minimum_stock", "maximum_stock"} : form[f] # ""}

\* handleSubmit: "Build the edit request with only changed fields"
ChangedFields(form, product) ==
    {f \in {"name"} : form.name # product.name}
    \cup {f \in {"price"} : ParseNumber(form.price) # product.price}
    \cup {f \in {"quantity"} : ParseNumber(form.quantity) # product.stock_quantity}
    \cup {f \in {"category"} : form.category # ToDisplay(product.category)}
    \cup {f \in {"minimum_stock", "maximum_stock"} : form[f] # ""}

\* the fields of editRequest besides product_id
EditRequest(form, product) ==
    [f \in ChangedFields(form, product) |->
        CASE f = "name" -> form.name
          [] f = "category" -> ToStorage(form.category)
          [] OTHER -> ParseNumber(form[f])]

InvInit ==
    /\ store = InitialStore
    /\ nextProductId = 2
    /\ invRequests = 0
    /\ loads = 0
    /\ editInputs = 0
    /\ dispatchOutcome = ""
    /\ loadInFlight = {}
    /\ editProducts = {}
    /\ editSelected = NoSelection
    /\ editForm = EmptyForm
    /\ editError = ""
    /\ editRequests = {}
    /\ editResponses = {}

\* handleEditInventoryClick, and the useEffect on isOpen that calls
\* loadProducts; the response carries the products stored when it was asked for
OpenEditModal ==
    /\ ~showEditInventoryModal /\ ~showProductModal
    /\ loads < MaxLoads
    /\ loads' = loads + 1
    /\ showEditInventoryModal' = TRUE
    /\ loadInFlight' = loadInFlight \cup {Snapshot(store)}
    /\ UNCHANGED <<invFrame, messages, nextId, showProductModal, editSubmitting,
                   deleting, confirmDelete>>
    /\ UNCHANGED <<store, nextProductId, invRequests, editInputs,
                   dispatchOutcome, revision, addRows, addSubmitting,
                   addError, addSucceeded, addLoop, addRequests, addResponses,
                   editProducts, editSelected, editForm, editError,
                   editRequests, editResponses>>

\* loadProducts settles: setProducts(data.products)
LoadProductsDone(snapshot) ==
    /\ snapshot \in loadInFlight
    /\ loadInFlight' = loadInFlight \ {snapshot}
    /\ editProducts' = snapshot
    /\ UNCHANGED <<invFrame, messages, nextId, showProductModal,
                   showEditInventoryModal, editSubmitting, deleting,
                   confirmDelete>>
    /\ UNCHANGED <<store, nextProductId, invRequests, loads, editInputs,
                   dispatchOutcome, revision, addRows, addSubmitting,
                   addError, addSucceeded, addLoop, addRequests, addResponses,
                   editSelected, editForm, editError, editRequests,
                   editResponses>>

\* click on a product of the list: setSelectedProduct, then the useEffect
SelectLoadedProduct(product) ==
    /\ showEditInventoryModal
    /\ product \in editProducts
    /\ editSelected' = product
    /\ editForm' = FormOf(product)
    /\ confirmDelete' = FALSE
    /\ UNCHANGED <<invFrame, messages, nextId, showProductModal,
                   showEditInventoryModal, editSubmitting, deleting>>
    /\ UNCHANGED <<store, nextProductId, invRequests, loads, editInputs,
                   dispatchOutcome, revision, addRows, addSubmitting,
                   addError, addSucceeded, addLoop, addRequests, addResponses,
                   loadInFlight, editProducts, editError, editRequests,
                   editResponses>>

\* onChange of a form input: setEditForm({...editForm, [field]: value})
SetEditForm(field, value) ==
    /\ showEditInventoryModal
    /\ editSelected # NoSelection
    /\ value \in FormTexts(field)
    /\ editInputs < MaxEdits
    /\ editInputs' = editInputs + 1
    /\ editForm' = [editForm EXCEPT ![field] = value]
    /\ UNCHANGED <<invFrame, messages, nextId, showProductModal,
                   showEditInventoryModal, editSubmitting, deleting,
                   confirmDelete>>
    /\ UNCHANGED <<store, nextProductId, invRequests, loads, dispatchOutcome,
                   revision, addRows, addSubmitting, addError, addSucceeded,
                   addLoop, addRequests, addResponses, loadInFlight,
                   editProducts, editSelected, editError, editRequests,
                   editResponses>>

\* handleSubmit up to the fetch of POST /inventory/edit-product
SubmitEdit ==
    /\ showEditInventoryModal
    /\ editSelected # NoSelection
    /\ ~editSubmitting /\ TrimName(editForm.name) # ""
    /\ editInputs < MaxEdits
    /\ editInputs' = editInputs + 1
    /\ editSubmitting' = TRUE
    /\ editError' = ""
    /\ editRequests' = editRequests \cup
            {[kind |-> "edit", product_id |-> editSelected.id,
              fields |-> EditRequest(editForm, editSelected), products |-> {}]}
    /\ UNCHANGED <<invFrame, messages, nextId, showProductModal,
                   showEditInventoryModal, deleting, confirmDelete>>
    /\ UNCHANGED <<store, nextProductId, invRequests, loads, dispatchOutcome,
                   revision, addRows, addSubmitting, addError, addSucceeded,
                   addLoop, addRequests, addResponses, loadInFlight,
                   editProducts, editSelected, editForm, editResponses>>

\* handleClose of EditInventoryModal (X and Cancelar)
CloseEditModal ==
    /\ showEditInventoryModal
    /\ editSelected' = NoSelection
    /\ editForm' = EmptyForm
    /\ editError' = ""
    /\ showEditInventoryModal' = FALSE
    /\ UNCHANGED <<invFrame, messages, nextId, showProductModal, editSubmitting,
                   deleting, confirmDelete>>
    /\ UNCHANGED <<store, nextProductId, invRequests, loads, editInputs,
                   dispatchOutcome, revision, addRows, addSubmitting,
                   addError, addSucceeded, addLoop, addRequests, addResponses,
                   loadInFlight, editProducts, editRequests, editResponses>>

\* handleDelete: the first click asks for confirmation, the second sends
\* DELETE /inventory/product/{id}; the continuation keeps the products and the
\* selectedProduct of this render
ClickDelete ==
    /\ showEditInventoryModal
    /\ editSelected # NoSelection
    /\ ~deleting
    /\ IF ~confirmDelete
       THEN /\ confirmDelete' = TRUE
            /\ UNCHANGED <<deleting, editError, editRequests, editInputs>>
       ELSE /\ editInputs < MaxEdits
            /\ editInputs' = editInputs + 1
            /\ deleting' = TRUE
            /\ editError' = ""
            /\ editRequests' = editRequests \cup
                    {[kind |-> "delete", product_id |-> editSelected.id,
                      fields |-> <<>>, products |-> editProducts]}
            /\ UNCHANGED confirmDelete
    /\ UNCHANGED <<invFrame, messages, nextId, showProductModal,
                   showEditInventoryModal, editSubmitting>>
    /\ UNCHANGED <<store, nextProductId, invRequests, loads, dispatchOutcome,
                   revision, addRows, addSubmitting, addError, addSucceeded,
                   addLoop, addRequests, addResponses, loadInFlight,
                   editProducts, editSelected, editForm, editResponses>>

\* ------------------------------------ edit_product, delete_product (backend)
Response(req, ok, detail) ==
    [kind |-> req.kind, product_id |-> req.product_id, ok |-> ok,
     detail |-> detail, products |-> req.products]

\* POST /inventory/edit-product is handled
ServeEdit(req) ==
    /\ req \in editRequests /\ req.kind = "edit"
    /\ editRequests' = editRequests \ {req}
    /\ IF ~store[req.product_id].exists
       THEN /\ editResponses' = editResponses \cup {Response(req, FALSE, "NotFound")}
            /\ UNCHANGED store
       ELSE IF EditProductRejected(req.fields)
       THEN /\ editResponses' =
                    editResponses \cup {Response(req, FALSE, "ValidationError")}
            /\ UNCHANGED store
       ELSE /\ editResponses' = editResponses \cup {Response(req, TRUE, "")}
            /\ store' = [store EXCEPT
                            ![req.product_id] = ApplyPatch(@, req.fields)]
    /\ UNCHANGED <<invFrame, messages, nextId, showProductModal,
                   showEditInventoryModal, editSubmitting, deleting,
                   confirmDelete>>
    /\ UNCHANGED <<nextProductId, invRequests, loads, editInputs,
                   dispatchOutcome, revision, addRows, addSubmitting,
                   addError, addSucceeded, addLoop, addRequests, addResponses,
                   loadInFlight, editProducts, editSelected, editForm,
                   editError>>

DeleteOutcome_AlwaysSucceeds(s, p) == TRUE

\* delete_product: an unknown product id is a NotFoundError
DeleteOutcome(s, p) == s[p].exists

\* DELETE /inventory/product/{id} is handled: hard delete
ServeDelete(req) ==
    /\ req \in editRequests /\ req.kind = "delete"
    /\ editRequests' = editRequests \ {req}
    /\ IF DeleteOutcome(store, req.product_id)
       THEN /\ editResponses' = editResponses \cup {Response(req, TRUE, "")}
            /\ store' = [store EXCEPT ![req.product_id] = NoRecord]
       ELSE /\ editResponses' = editResponses \cup {Response(req, FALSE, "NotFound")}
            /\ UNCHANGED store
    /\ UNCHANGED <<invFrame, messages, nextId, showProductModal,
                   showEditInventoryModal, editSubmitting, deleting,
                   confirmDelete>>
    /\ UNCHANGED <<nextProductId, invRequests, loads, editInputs,
                   dispatchOutcome, revision, addRows, addSubmitting,
                   addError, addSucceeded, addLoop, addRequests, addResponses,
                   loadInFlight, editProducts, editSelected, editForm,
                   editError>>

\* delete-product dispatched from a chat message: the same delete_product
DispatchDelete(p) ==
    /\ IF DeleteOutcome(store, p)
       THEN /\ dispatchOutcome' = "deleted"
            /\ store' = [store EXCEPT ![p] = NoRecord]
       ELSE /\ dispatchOutcome' = "NotFound"
            /\ UNCHANGED store
    /\ UNCHANGED <<invFrame, messages, nextId, showProductModal,
                   showEditInventoryModal, editSubmitting, deleting,
                   confirmDelete>>
    /\ UNCHANGED <<nextProductId, invRequests, loads, editInputs, revision,
                   addRows, addSubmitting, addError, addSucceeded, addLoop,
                   addRequests, addResponses, loadInFlight, editProducts,
                   editSelected, editForm, editError, editRequests,
                   editResponses>>

\* order fulfilment decrements the stock of a product (the scenario order of 3)
FulfilOrder(p) ==
    /\ store[p].exists /\ store[p].quantity >= 3
    /\ store' = [store EXCEPT ![p].quantity = @ - 3]
    /\ UNCHANGED <<invFrame, messages, nextId, showProductModal,
                   showEditInventoryModal, editSubmitting, deleting,
                   confirmDelete>>
    /\ UNCHANGED <<nextProductId, invRequests, loads, editInputs,
                   dispatchOutcome, revision, addRows, addSubmitting,
                   addError, addSucceeded, addLoop, addRequests, addResponses,
                   loadInFlight, editProducts, editSelected, editForm,
                   editError, editRequests, editResponses>>

\* ------------------------------ EditInventoryModal: the requests settle
\* handleSubmit after the await: onProductEdited and handleClose, or setError
EditResponse(resp) ==
    /\ resp \in editResponses /\ resp.kind = "edit"
    /\ editResponses' = editResponses \ {resp}
    /\ editSubmitting' = FALSE
    /\ IF resp.ok
       THEN /\ messages' = AppendAssistant(messages, nextId, "edited", "")
            /\ nextId' = nextId + 1
            /\ editSelected' = NoSelection
            /\ editForm' = EmptyForm
            /\ editError' = ""
            /\ showEditInventoryModal' = FALSE
       ELSE /\ editError' = resp.detail
            /\ UNCHANGED <<messages, nextId, editSelected, editForm,
                           showEditInventoryModal>>
    /\ UNCHANGED <<invFrame, showProductModal, deleting, confirmDelete>>
    /\ UNCHANGED <<store, nextProductId, invRequests, loads, editInputs,
                   dispatchOutcome, revision, addRows, addSubmitting,
                   addError, addSucceeded, addLoop, addRequests, addResponses,
                   loadInFlight, editProducts, editRequests>>

\* handleDelete after the await: onProductEdited, the product leaves the list
\* and the selection, or setError
DeleteResponse(resp) ==
    /\ resp \in editResponses /\ resp.kind = "delete"
    /\ editResponses' = editResponses \ {resp}
    /\ deleting' = FALSE
    /\ IF resp.ok
       THEN /\ messages' = AppendAssistant(messages, nextId, "deleted", "")
            /\ nextId' = nextId + 1
            /\ editProducts' = {p \in resp.products : p.id # resp.product_id}
            /\ editSelected' = NoSelection
            /\ confirmDelete' = FALSE
            /\ UNCHANGED editError
       ELSE /\ editError' = resp.detail
            /\ UNCHANGED <<messages, nextId, editProducts, editSelected,
                           confirmDelete>>
    /\ UNCHANGED <<invFrame, showProductModal, showEditInventoryModal,
                   editSubmitting>>
    /\ UNCHANGED <<store, nextProductId, invRequests, loads, editInputs,
                   dispatchOutcome, revision, addRows, addSubmitting,
                   addError, addSucceeded, addLoop, addRequests, addResponses,
                   loadInFlight, editForm, editRequests>>

\* -------------------------------------------- CreateProductModal, field level
\* the two revisions of CreateProductModal the repository holds: 1 requires a
\* price and a category, 2 falls back to a default price and category
Revisions == {1, 2}

\* { id: '1', name: '', quantity: 1 }; a row is known by its place in products
BlankRow == [name |-> "", quantity |-> 1, price |-> NoValue, category |-> ""]

NoLoop == [active |-> FALSE, rev |-> 0, rows |-> <<>>, pos |-> 0,
           results |-> <<>>, failures |-> <<>>]

\* onChange of the quantity input: Math.max(1, parseInt(e.target.value) || 1)
ClampQuantity(text) ==
    LET n == ParseNumber(text)
    IN  IF n = NaN \/ n = 0 THEN 1 ELSE IF n < 1 THEN 1 ELSE n

\* the values updateProduct is called with, by field
RowValues(field) ==
    CASE field = "name" -> {"a"}
      [] field = "quantity" -> {ClampQuantity(text) : text \in {"", "0", "1"}}
      [] field = "price" -> {0, 50}
      [] OTHER -> {"Muebles"}

\* validateProducts: the errors of one row
RowErrors(rev, row) ==
    {e \in {"name"} : TrimName(row.name) = ""}
    \cup {e \in {"quantity"} : row.quantity < 1}
    \cup (IF rev = 1
          THEN {e \in {"price"} : row.price = NoValue \/ row.price <= 0}
               \cup {e \in {"category"} : row.category = ""}
          ELSE {e \in {"price"} : row.price # NoValue /\ row.price < 0})

ValidationErrors(rev, rows) ==
    {pair \in (1..Len(rows)) \X {"name", "quantity", "price", "category"} :
        pair[2] \in RowErrors(rev, rows[pair[1]])}

\* isProductValid
IsProductValid(rev, row) ==
    /\ TrimName(row.name) # ""
    /\ row.quantity >= 1
    /\ rev = 1 => /\ row.price # NoValue /\ row.price > 0
                  /\ row.category # ""

\* canSubmit = products.some(isProductValid) && !submitting
CanSubmitRows(rev) ==
    /\ \E i \in 1..Len(addRows) : IsProductValid(rev, addRows[i])
    /\ ~addSubmitting

\* productData of handleSubmit: `product.price!` in revision 1,
\* `product.price || 50.0` in revision 2
ProductData(rev, row) ==
    [name |-> TrimName(row.name),
     quantity |-> row.quantity,
     price |-> IF rev = 2 /\ row.price \in {NoValue, 0} THEN 50 ELSE row.price,
     category |-> AddCategory(rev, row.category)]

AddInit ==
    /\ revision = 0
    /\ addRows = <<BlankRow>>
    /\ addSubmitting = FALSE
    /\ addError = ""
    /\ addSucceeded = {}
    /\ addLoop = NoLoop
    /\ addRequests = {}
    /\ addResponses = {}

\* handleCreateProductClick
OpenCreateProduct ==
    /\ ~showProductModal /\ ~showEditInventoryModal
    /\ showProductModal' = TRUE
    /\ revision' \in (IF revision = 0 THEN Revisions ELSE {revision})
    /\ UNCHANGED <<invFrame, messages, nextId, showEditInventoryModal,
                   editSubmitting, deleting, confirmDelete, invVars, authVars,
                   cartVars, dispatchVars>>

\* handleClose of CreateProductModal (X and Cancelar, disabled while submitting)
CloseCreateProduct ==
    /\ showProductModal /\ ~addSubmitting
    /\ addRows' = <<BlankRow>>
    /\ addError' = ""
    /\ addSucceeded' = {}
    /\ showProductModal' = FALSE
    /\ UNCHANGED <<invFrame, messages, nextId, showEditInventoryModal,
                   editSubmitting, deleting, confirmDelete>>
    /\ UNCHANGED <<store, nextProductId, invRequests, loads, editInputs,
                   dispatchOutcome, revision, addSubmitting, addLoop,
                   addRequests, addResponses, loadInFlight, editProducts,
                   editSelected, editForm, editError, editRequests,
                   editResponses>>

\* addNewProduct
AddRow ==
    /\ showProductModal /\ ~addSubmitting
    /\ invRequests < MaxRequests
    /\ Len(addRows) < MaxRows
    /\ addRows' = Append(addRows, BlankRow)
    /\ UNCHANGED <<invFrame, messages, nextId, showProductModal,
                   showEditInventoryModal, editSubmitting, deleting,
                   confirmDelete>>
    /\ UNCHANGED <<store, nextProductId, invRequests, loads, editInputs,
                   dispatchOutcome, revision, addSubmitting, addError,
                   addSucceeded, addLoop, addRequests, addResponses,
                   loadInFlight, editProducts, editSelected, editForm,
                   editError, editRequests, editResponses>>

\* removeProduct: only while more than one row is left
RemoveRow(i) ==
    /\ showProductModal /\ ~addSubmitting
    /\ i \in 1..Len(addRows) /\ Len(addRows) > 1
    /\ addRows' = SubSeq(addRows, 1, i - 1) \o SubSeq(addRows, i + 1, Len(addRows))
    /\ addSucceeded' = {j \in addSucceeded : j < i}
                        \cup {j - 1 : j \in {k \in addSucceeded : k > i}}
    /\ UNCHANGED <<invFrame, messages, nextId, showProductModal,
                   showEditInventoryModal, editSubmitting, deleting,
                   confirmDelete>>
    /\ UNCHANGED <<store, nextProductId, invRequests, loads, editInputs,
                   dispatchOutcome, revision, addSubmitting, addError,
                   addLoop, addRequests, addResponses, loadInFlight,
                   editProducts, editSelected, editForm, editError,
                   editRequests, editResponses>>

\* updateProduct(id, field, value), which also clears the inline error
UpdateRow(i, field, value) ==
    /\ showProductModal /\ ~addSubmitting
    /\ invRequests < MaxRequests
    /\ i \in 1..Len(addRows)
    /\ value \in RowValues(field)
    /\ addRows' = [addRows EXCEPT ![i][field] = value]
    /\ addError' = ""
    /\ UNCHANGED <<invFrame, messages, nextId, showProductModal,
                   showEditInventoryModal, editSubmitting, deleting,
                   confirmDelete>>
    /\ UNCHANGED <<store, nextProductId, invRequests, loads, editInputs,
                   dispatchOutcome, revision, addSubmitting, addSucceeded,
                   addLoop, addRequests, addResponses, loadInFlight,
                   editProducts, editSelected, editForm, editError,
                   editRequests, editResponses>>

\* updateQuantity(id, delta) of the - and + buttons:
\* Math.max(1, p.quantity + delta), within the quantities the rows hold
UpdateQuantity(i, delta) ==
    LET clamped == IF addRows[i].quantity + delta < 1 THEN 1
                    ELSE addRows[i].quantity + delta
    IN  /\ showProductModal /\ ~addSubmitting
        /\ invRequests < MaxRequests
        /\ i \in 1..Len(addRows)
        /\ clamped \in RowValues("quantity")
        /\ addRows' = [addRows EXCEPT ![i].quantity = clamped]
        /\ UNCHANGED <<invFrame, messages, nextId, showProductModal,
                       showEditInventoryModal, editSubmitting, deleting,
                       confirmDelete>>
        /\ UNCHANGED <<store, nextProductId, invRequests, loads, editInputs,
                       dispatchOutcome, revision, addSubmitting, addError,
                       addSucceeded, addLoop, addRequests, addResponses,
                       loadInFlight, editProducts, editSelected, editForm,
                       editError, editRequests, editResponses>>

\* handleSubmit up to the first fetch: validateProducts, then the request of
\* the first row
SubmitProducts ==
    /\ showProductModal
    /\ CanSubmitRows(revision)
    /\ IF ValidationErrors(revision, addRows) # {}
       THEN /\ addError' = "validation"
            /\ UNCHANGED <<addSubmitting, addLoop, addRequests, invRequests>>
       ELSE /\ invRequests + Len(addRows) <= MaxAddRequests
            /\ invRequests' = invRequests + Len(addRows)
            /\ addSubmitting' = TRUE
            /\ addError' = ""
            /\ addLoop' = [active |-> TRUE, rev |-> revision, rows |-> addRows,
                           pos |-> 1, results |-> <<>>, failures |-> <<>>]
            /\ addRequests' = {ProductData(revision, addRows[1])}
    /\ UNCHANGED <<invFrame, messages, nextId, showProductModal,
                   showEditInventoryModal, editSubmitting, deleting,
                   confirmDelete>>
    /\ UNCHANGED <<store, nextProductId, loads, editInputs, dispatchOutcome,
                   revision, addRows, addSucceeded, addResponses,
                   loadInFlight, editProducts, editSelected, editForm,
                   editError, editRequests, editResponses>>

\* --------------------------------------------------- add_product (backend)
\* POST /inventory/add-product is handled: the product gets a generated id
ServeAdd(req) ==
    /\ req \in addRequests
    /\ nextProductId \in InvIds
    /\ addRequests' = addRequests \ {req}
    /\ IF AddProductRejected(req)
       THEN /\ addResponses' = addResponses \cup
                    {[ok |-> FALSE, detail |-> "ValidationError"]}
            /\ UNCHANGED <<store, nextProductId>>
       ELSE /\ addResponses' = addResponses \cup {[ok |-> TRUE, detail |-> ""]}
            /\ store' = [store EXCEPT ![nextProductId] =
                            Product(req.name, req.price, req.quantity,
                                    req.category, NoValue, NoValue)]
            /\ nextProductId' = nextProductId + 1
    /\ UNCHANGED <<invFrame, messages, nextId, showProductModal,
                   showEditInventoryModal, editSubmitting, deleting,
                   confirmDelete>>
    /\ UNCHANGED <<invRequests, loads, editInputs, dispatchOutcome, revision,
                   addRows, addSubmitting, addError, addSucceeded, addLoop,
                   loadInFlight, editProducts, editSelected, editForm,
                   editError, editRequests, editResponses>>

\* POST /inventory/add-product fails for another reason (ConflictError)
ServeAddConflict(req) ==
    /\ req \in addRequests
    /\ addRequests' = addRequests \ {req}
    /\ addResponses' = addResponses \cup {[ok |-> FALSE, detail |-> "ConflictError"]}
    /\ UNCHANGED <<invFrame, messages, nextId, showProductModal,
                   showEditInventoryModal, editSubmitting, deleting,
                   confirmDelete>>
    /\ UNCHANGED <<store, nextProductId, invRequests, loads, editInputs,
                   dispatchOutcome, revision, addRows, addSubmitting,
                   addError, addSucceeded, addLoop, loadInFlight,
                   editProducts, editSelected, editForm, editError,
                   editRequests, editResponses>>

\* ----------------------- CreateProductModal: a request of the loop settles
NextRequest_StopsAtFailure(loop, ok) == ok /\ loop.pos < Len(loop.rows)

\* `for (const product of products)`: the inner catch records the failure and
\* the loop goes on with the next row
NextRequest(loop, ok) == loop.pos < Len(loop.rows)

\* handleSubmit after an await of the loop: the result or the failure of the
\* row is recorded; then the next row is sent, or the outcome is reported with
\* onProductsCreated and the modal closes when nothing failed
AddResponse(resp) ==
    LET row == addLoop.rows[addLoop.pos]
        results == IF resp.ok THEN Append(addLoop.results, row.name)
                   ELSE addLoop.results
        failures == IF resp.ok THEN addLoop.failures
                    ELSE Append(addLoop.failures, <<row.name, resp.detail>>)
    IN  /\ resp \in addResponses
        /\ addResponses' = addResponses \ {resp}
        /\ IF NextRequest(addLoop, resp.ok)
           THEN /\ addLoop' = [addLoop EXCEPT !.pos = @ + 1,
                                              !.results = results,
                                              !.failures = failures]
                /\ addRequests' =
                        {ProductData(addLoop.rev, addLoop.rows[addLoop.pos + 1])}
                /\ addSucceeded' = addSucceeded \cup
                        (IF resp.ok THEN {addLoop.pos} ELSE {})
                /\ UNCHANGED <<messages, nextId, addSubmitting, addRows,
                               addError, showProductModal>>
           ELSE /\ messages' = AppendAssistant(messages, nextId, "products",
                        [succeeded |-> results, failed |-> failures])
                /\ nextId' = nextId + 1
                /\ addSubmitting' = FALSE
                /\ addLoop' = NoLoop
                /\ UNCHANGED addRequests
                /\ IF failures = <<>>
                   THEN /\ addRows' = <<BlankRow>>
                        /\ addError' = ""
                        /\ addSucceeded' = {}
                        /\ showProductModal' = FALSE
                   ELSE /\ addError' = "partial"
                        /\ addSucceeded' = addSucceeded \cup
                                (IF resp.ok THEN {addLoop.pos} ELSE {})
                        /\ UNCHANGED <<addRows, showProductModal>>
        /\ UNCHANGED <<invFrame, showEditInventoryModal, editSubmitting,
                       deleting, confirmDelete>>
        /\ UNCHANGED <<store, nextProductId, invRequests, loads, editInputs,
                       dispatchOutcome, revision, loadInFlight, editProducts,
                       editSelected, editForm, editError, editRequests,
                       editResponses>>

EditNext ==
    \/ OpenEditModal
    \/ \E snapshot \in loadInFlight : LoadProductsDone(snapshot)
    \/ \E product \in editProducts : SelectLoadedProduct(product)
    \/ \E field \in PatchFields : \E value \in FormTexts(field) :
            SetEditForm(field, value)
    \/ SubmitEdit
    \/ CloseEditModal
    \/ \E req \in editRequests : ServeEdit(req)
    \/ \E p \in InvIds : FulfilOrder(p)
    \/ \E resp \in editResponses : EditResponse(resp)

DeleteNext ==
    \/ OpenEditModal
    \/ \E snapshot \in loadInFlight : LoadProductsDone(snapshot)
    \/ \E product \in editProducts : SelectLoadedProduct(product)
    \/ CloseEditModal
    \/ ClickDelete
    \/ \E req \in editRequests : ServeDelete(req)
    \/ \E p \in InvIds : DispatchDelete(p)
    \/ \E p \in InvIds : FulfilOrder(p)
    \/ \E resp \in editResponses : DeleteResponse(resp)

ProductsNext ==
    \/ OpenCreateProduct
    \/ CloseCreateProduct
    \/ AddRow
    \/ \E i \in 1..MaxRows : RemoveRow(i)
    \/ \E i \in 1..MaxRows, field \in {"name", "quantity", "price", "category"} :
            \E value \in RowValues(field) : UpdateRow(i, field, value)
    \/ \E i \in 1..MaxRows, delta \in {-1, 1} : UpdateQuantity(i, delta)
    \/ SubmitProducts
    \/ \E req \in addRequests : ServeAdd(req)
    \/ \E req \in addRequests : ServeAddConflict(req)
    \/ \E resp \in addResponses : AddResponse(resp)

\* ------------------------------------------ ApiClient.request, direct fetches
\* who sends a request: the chat through ApiClient.request, the modals with a
\* fetch of their own in handleSubmit
Callers == {"chat", "sale", "product", "edit"}

\* response.status: ok, invalid or expired token, another failure
Statuses == {200, 401, 500}

Idle == [phase |-> "idle", status |-> 0]

AuthInit ==
    /\ location = "/"
    /\ fetchState = [caller \in Callers |-> Idle]
    /\ thrown = [caller \in Callers |-> ""]

\* ApiClient.request: a 401 response sets window.location.href = '/auth'
RedirectsToAuth(status) == status = 401

\* ApiClient.request: the error thrown for a response that is not ok
RequestError(status) ==
    IF status = 200 THEN ""
    ELSE IF status = 401 THEN "Sesion expirada"
    ELSE "detail"

\* handleSubmit of the modals: `throw new Error(errorData.detail || ...)`
FetchError(status) == IF status = 200 THEN "" ELSE "detail"

\* a request is sent; the page is still the chat page
Fetch(caller) ==
    /\ location = "/"
    /\ fetchState[caller].phase = "idle"
    /\ fetchState' = [fetchState EXCEPT ![caller] =
                            [phase |-> "pending", status |-> 0]]
    /\ thrown' = [thrown EXCEPT ![caller] = ""]
    /\ UNCHANGED <<location, chatVars, showVars, modalOps, lastOp, saleVars,
                   productVars, editVars, orderVars, renderVars, invVars, revision,
                   cartVars, dispatchVars, sessionVars>>

\* the server answers a request
Respond(caller, status) ==
    /\ fetchState[caller].phase = "pending"
    /\ fetchState' = [fetchState EXCEPT ![caller] =
                            [phase |-> "responded", status |-> status]]
    /\ UNCHANGED <<location, thrown, chatVars, showVars, modalOps, lastOp,
                   saleVars, productVars, editVars, orderVars, renderVars,
                   invVars, revision, cartVars, dispatchVars, sessionVars>>

\* ApiClient.request after `await fetch`
ApiClientRequest(caller) ==
    /\ caller = "chat"
    /\ location = "/"
    /\ fetchState[caller].phase = "responded"
    /\ fetchState' = [fetchState EXCEPT ![caller] = Idle]
    /\ thrown' = [thrown EXCEPT ![caller] =
                        RequestError(fetchState[caller].status)]
    /\ location' = IF RedirectsToAuth(fetchState[caller].status) THEN "/auth"
                   ELSE location
    /\ UNCHANGED <<chatVars, showVars, modalOps, lastOp, saleVars,
                   productVars, editVars, orderVars, renderVars, invVars, revision,
                   cartVars, dispatchVars, sessionVars>>

\* handleSubmit of CreateSaleModal, CreateProductModal, EditInventoryModal
\* after `await fetch`: the error is caught and shown inline
DirectFetch(caller) ==
    /\ caller # "chat"
    /\ location = "/"
    /\ fetchState[caller].phase = "responded"
    /\ fetchState' = [fetchState EXCEPT ![caller] = Idle]
    /\ thrown' = [thrown EXCEPT ![caller] =
                        FetchError(fetchState[caller].status)]
    /\ UNCHANGED <<location, chatVars, showVars, modalOps, lastOp, saleVars,
                   productVars, editVars, orderVars, renderVars, invVars, revision,
                   cartVars, dispatchVars, sessionVars>>

AuthNext ==
    \/ \E caller \in Callers : Fetch(caller)
    \/ \E caller \in Callers, status \in Statuses : Respond(caller, status)
    \/ \E caller \in Callers : ApiClientRequest(caller)
    \/ \E caller \in Callers : DirectFetch(caller)

\* ------------------------------------------------ AuthProvider, Home, AuthPage
\* a token is a number, 0 for null and for a cookie that is not set; the
\* browser starts with the cookies of an earlier login, whose token is 1
NoToken == 0

StoredToken == 1

NoCookies == [auth_token |-> NoToken, auth_user |-> FALSE]

\* const isAuthenticated = !!user && !!token
IsAuthenticated == user /\ token # NoToken

SessionInit ==
    /\ user = FALSE
    /\ token = NoToken
    /\ authLoading = TRUE
    /\ mounted = FALSE
    /\ cookies = [auth_token |-> StoredToken, auth_user |-> TRUE]
    /\ verifying = {}
    /\ authRequests = {}
    /\ validTokens = {StoredToken}
    /\ issued = StoredToken
    /\ authOps = 0
    /\ rejected = FALSE

sessionFrame == <<fetchState, thrown, chatVars, showVars, modalOps, lastOp,
                  saleVars, productVars, editVars, orderVars, renderVars,
                  invVars, revision, cartVars, dispatchVars>>

\* the effect of AuthProvider on mount: with both cookies, setToken, setUser
\* and verifyToken up to its await; setIsLoading(false)
Mount ==
    /\ ~mounted
    /\ mounted' = TRUE
    /\ authLoading' = FALSE
    /\ IF cookies.auth_token # NoToken /\ cookies.auth_user
       THEN /\ token' = cookies.auth_token
            /\ user' = TRUE
            /\ verifying' = verifying \cup {cookies.auth_token}
       ELSE UNCHANGED <<token, user, verifying>>
    /\ UNCHANGED <<sessionFrame, location, cookies, authRequests, validTokens,
                   issued, authOps, rejected>>

VerifyToken_ClearsOnlyState(authToken, ok) ==
    /\ authToken \in verifying
    /\ ok => authToken \in validTokens
    /\ verifying' = verifying \ {authToken}
    /\ IF ok
       THEN /\ user' = TRUE
            /\ UNCHANGED <<token, cookies, rejected>>
       ELSE /\ user' = FALSE
            /\ token' = NoToken
            /\ rejected' = TRUE
            /\ UNCHANGED cookies
    /\ UNCHANGED <<sessionFrame, location, authLoading, mounted, authRequests,
                   validTokens, issued, authOps>>

\* verifyToken after its await: GET /auth/me answers ok only for a valid
\* token, setUser(userData); it fails for an invalid token and when the fetch
\* throws, logout()
VerifyToken(authToken, ok) ==
    /\ authToken \in verifying
    /\ ok => authToken \in validTokens
    /\ verifying' = verifying \ {authToken}
    /\ IF ok
       THEN /\ user' = TRUE
            /\ UNCHANGED <<token, cookies, rejected>>
       ELSE /\ user' = FALSE
            /\ token' = NoToken
            /\ cookies' = NoCookies
            /\ rejected' = TRUE
    /\ UNCHANGED <<sessionFrame, location, authLoading, mounted, authRequests,
                   validTokens, issued, authOps>>

\* login and register up to their await, called by the form AuthPage shows
\* when it is neither loading nor authenticated: setIsLoading(true)
Login(kind) ==
    /\ location = "/auth" /\ mounted
    /\ ~authLoading /\ ~IsAuthenticated
    /\ authRequests = {}
    /\ authOps < MaxAuthOps
    /\ authOps' = authOps + 1
    /\ authLoading' = TRUE
    /\ authRequests' = {kind}
    /\ UNCHANGED <<sessionFrame, location, user, token, mounted, cookies,
                   verifying, validTokens, issued, rejected>>

\* login and register after their await: on response.ok setToken, setUser
\* and both cookies, then onSuccess of the form (router.push('/')); otherwise
\* nothing is set; finally setIsLoading(false)
LoginResponse(kind, ok) ==
    /\ kind \in authRequests
    /\ authRequests' = authRequests \ {kind}
    /\ authLoading' = FALSE
    /\ IF ok
       THEN /\ issued < MaxTokens
            /\ issued' = issued + 1
            /\ validTokens' = validTokens \cup {issued + 1}
            /\ token' = issued + 1
            /\ user' = TRUE
            /\ cookies' = [auth_token |-> issued + 1, auth_user |-> TRUE]
            /\ location' = "/"
            /\ rejected' = FALSE
       ELSE UNCHANGED <<issued, validTokens, token, user, cookies, location,
                        rejected>>
    /\ UNCHANGED <<sessionFrame, mounted, verifying, authOps>>

\* logout, the button of ChatInterface, which Home renders when authenticated
Logout ==
    /\ location = "/" /\ mounted
    /\ ~authLoading /\ IsAuthenticated
    /\ authOps < MaxAuthOps
    /\ authOps' = authOps + 1
    /\ user' = FALSE
    /\ token' = NoToken
    /\ cookies' = NoCookies
    /\ UNCHANGED <<sessionFrame, location, authLoading, mounted, verifying,
                   authRequests, validTokens, issued, rejected>>

\* the effect of Home: router.push('/auth') when not loading and not
\* authenticated
HomeRedirect ==
    /\ location = "/" /\ mounted
    /\ ~authLoading /\ ~IsAuthenticated
    /\ location' = "/auth"
    /\ UNCHANGED <<sessionFrame, user, token, authLoading, mounted, cookies,
                   verifying, authRequests, validTokens, issued, authOps,
                   rejected>>

\* the effect of AuthPage: router.push('/') when authenticated
AuthPageRedirect ==
    /\ location = "/auth" /\ mounted
    /\ IsAuthenticated
    /\ location' = "/"
    /\ UNCHANGED <<sessionFrame, user, token, authLoading, mounted, cookies,
                   verifying, authRequests, validTokens, issued, authOps,
                   rejected>>

\* the server stops accepting a token (it expires after 30 minutes)
TokenExpires(authToken) ==
    /\ authToken \in validTokens
    /\ validTokens' = validTokens \ {authToken}
    /\ UNCHANGED <<sessionFrame, location, user, token, authLoading, mounted,
                   cookies, verifying, authRequests, issued, authOps, rejected>>

\* ApiClient.request of a chat message gets status 401, the token of the
\* cookie not being valid: window.location.href = '/auth' loads the page
\* anew, so the state of AuthProvider starts over and the pending requests
\* of the old page are dropped; the cookies stay
Unauthorized ==
    /\ location = "/" /\ mounted
    /\ ~authLoading /\ IsAuthenticated
    /\ cookies.auth_token \notin validTokens
    /\ authOps < MaxAuthOps
    /\ authOps' = authOps + 1
    /\ location' = "/auth"
    /\ mounted' = FALSE
    /\ user' = FALSE
    /\ token' = NoToken
    /\ authLoading' = TRUE
    /\ verifying' = {}
    /\ authRequests' = {}
    /\ rejected' = TRUE
    /\ UNCHANGED <<sessionFrame, cookies, validTokens, issued>>

SessionNext ==
    \/ Mount
    \/ \E authToken \in verifying, ok \in BOOLEAN : VerifyToken(authToken, ok)
    \/ \E kind \in {"login", "register"} : Login(kind)
    \/ \E kind \in authRequests, ok \in BOOLEAN : LoginResponse(kind, ok)
    \/ Logout
    \/ HomeRedirect
    \/ AuthPageRedirect
    \/ \E authToken \in validTokens : TokenExpires(authToken)
    \/ Unauthorized

\* ------------------------------------------------- CreateSaleModal, cart level
\* of its two revisions, 1 asks for a customer name and clears the inline
\* error after four seconds, 2 sends a customer id that is always set
SaleIds == 1..2

SalePrice(p) == 10 * p

\* the stock the first product of the list can have
StockLevels == 0..2

\* a Product of GET /inventory/products-with-stock
SaleProduct(p, stock) ==
    [id |-> p, price |-> SalePrice(p), stock_quantity |-> stock,
     available_for_sale |-> stock > 0]

\* the lists a loadProducts call can bring: the first product at every stock
\* level or deleted in the meantime, the second with a single unit
ProductLists ==
    {{SaleProduct(1, stock), SaleProduct(2, 1)} : stock \in StockLevels}
        \cup {{SaleProduct(2, 1)}}

NoSaleError == [kind |-> "none", product |-> 0, max |-> 0]

SaleError(kind) == [kind |-> kind, product |-> 0, max |-> 0]

\* `Stock insuficiente para ${product.name}. Maximo disponible: ${product.stock_quantity}`
StockError(product) ==
    [kind |-> "stock", product |-> product.id, max |-> product.stock_quantity]

CustomerNames == {"", "c"}

CartItem(product) ==
    [product_id |-> product.id, quantity |-> 1, price |-> product.price,
     subtotal |-> product.price, stock_quantity |-> product.stock_quantity]

InCart(items, p) == \E i \in 1..Len(items) : items[i].product_id = p

\* cart.find((item) => item.product_id === product.id)
FindItem(items, p) ==
    items[CHOOSE i \in 1..Len(items) : items[i].product_id = p]

\* removeFromCart: cart.filter
WithoutItem(items, p) == SelectSeq(items, LAMBDA item : item.product_id # p)

\* the order items of orderData: cart.map
OrderItemsOf(items) ==
    [i \in 1..Len(items) |->
        [product_id |-> items[i].product_id, quantity |-> items[i].quantity]]

UpdateQuantityResult_IgnoresStock(p, newQuantity) ==
    IF newQuantity <= 0
    THEN [cart |-> WithoutItem(cart, p), error |-> saleError]
    ELSE IF ~\E product \in saleProducts : product.id = p
    THEN [cart |-> cart, error |-> saleError]
    ELSE [cart |-> [i \in 1..Len(cart) |->
                        IF cart[i].product_id = p
                        THEN [cart[i] EXCEPT
                                !.quantity = newQuantity,
                                !.subtotal = cart[i].price * newQuantity]
                        ELSE cart[i]],
          error |-> NoSaleError]

UpdateQuantityResult_NoRemoval(p, newQuantity) ==
    [cart |-> [i \in 1..Len(cart) |->
                    IF cart[i].product_id = p
                    THEN [cart[i] EXCEPT !.quantity = newQuantity,
                                         !.subtotal = cart[i].price * newQuantity]
                    ELSE cart[i]],
     error |-> NoSaleError]

\* updateQuantity(productId, newQuantity): the cart and the error it leaves
UpdateQuantityResult(p, newQuantity) ==
    IF newQuantity <= 0
    THEN [cart |-> WithoutItem(cart, p), error |-> saleError]
    ELSE IF ~\E product \in saleProducts : product.id = p
    THEN [cart |-> cart, error |-> saleError]
    ELSE LET product == CHOOSE product \in saleProducts : product.id = p
         IN  IF newQuantity > product.stock_quantity
             THEN [cart |-> cart, error |-> StockError(product)]
             ELSE [cart |-> [i \in 1..Len(cart) |->
                                IF cart[i].product_id = p
                                THEN [cart[i] EXCEPT
                                        !.quantity = newQuantity,
                                        !.subtotal = cart[i].price * newQuantity]
                                ELSE cart[i]],
                   error |-> NoSaleError]

CartInit ==
    /\ saleProducts = {}
    /\ cart = <<>>
    /\ saleError = NoSaleError
    /\ customerName = ""
    /\ saleLoads = 0
    /\ saleLoading = FALSE
    /\ saleRequests = {}
    /\ saleResponses = {}

cartFrame == <<inputValue, isLoading, chatInFlight, requestsIssued,
               showProductModal, showEditInventoryModal, lastOp, cartLength,
               saleInFlight, productVars, editVars, orderVars, renderVars,
               invVars, authVars, dispatchVars>>

\* handleCreateSaleClick and the effect on isOpen: loadProducts up to its
\* await (setLoading(true)), setCart([]), setError(null) (revision 1:
\* setCustomerName(''))
OpenSale ==
    /\ ~showSaleModal
    /\ saleLoads < MaxSaleLoads
    /\ showSaleModal' = TRUE
    /\ saleLoads' = saleLoads + 1
    /\ saleLoading' = TRUE
    /\ cart' = <<>>
    /\ saleError' = NoSaleError
    /\ revision' \in (IF revision = 0 THEN Revisions ELSE {revision})
    /\ customerName' = IF revision' = 1 THEN "" ELSE customerName
    /\ UNCHANGED <<cartFrame, messages, nextId, modalOps, saleSubmitting,
                   saleProducts, saleRequests,
                   saleResponses>>

\* loadProducts after the await: setProducts(data.products || []);
\* finally setLoading(false)
SaleProductsLoaded(list) ==
    /\ saleLoads > 0
    /\ saleLoads' = saleLoads - 1
    /\ saleProducts' = list
    /\ saleLoading' = FALSE
    /\ UNCHANGED <<cartFrame, revision, messages, nextId, modalOps, saleSubmitting,
                   showSaleModal, cart, saleError, customerName,
                   saleRequests,
                   saleResponses>>

\* loadProducts, the response is not ok: setError(errorMessage);
\* finally setLoading(false)
SaleProductsFailed ==
    /\ saleLoads > 0
    /\ saleLoads' = saleLoads - 1
    /\ saleError' = SaleError("load")
    /\ saleLoading' = FALSE
    /\ UNCHANGED <<cartFrame, revision, messages, nextId, modalOps, saleSubmitting,
                   showSaleModal, saleProducts, cart, customerName,
                   saleRequests,
                   saleResponses>>

\* the effect on error of revision 1: setError(null) after four seconds
SaleErrorExpires ==
    /\ revision = 1
    /\ saleError # NoSaleError
    /\ saleError' = NoSaleError
    /\ UNCHANGED <<cartFrame, saleLoading, revision, messages, nextId, modalOps, saleSubmitting,
                   showSaleModal, saleProducts, cart, customerName, saleLoads, saleRequests,
                   saleResponses>>

\* onChange of the customer name input of revision 1
SetCustomerName(name) ==
    /\ showSaleModal
    /\ revision = 1
    /\ customerName' = name
    /\ UNCHANGED <<cartFrame, saleLoading, revision, messages, nextId, modalOps, saleSubmitting,
                   showSaleModal, saleProducts, cart, saleError, saleLoads, saleRequests,
                   saleResponses>>

\* addToCart(product), the button of a product that is available for sale;
\* the list of products is not rendered while loading
CartAdd(product) ==
    /\ showSaleModal
    /\ ~saleLoading
    /\ product \in saleProducts
    /\ product.available_for_sale
    /\ IF InCart(cart, product.id)
       THEN LET result == UpdateQuantityResult(product.id,
                                FindItem(cart, product.id).quantity + 1)
            IN  cart' = result.cart /\ saleError' = result.error
       ELSE /\ cart' = Append(cart, CartItem(product))
            /\ UNCHANGED saleError
    /\ UNCHANGED <<cartFrame, saleLoading, revision, messages, nextId, modalOps, saleSubmitting,
                   showSaleModal, saleProducts, customerName, saleLoads, saleRequests,
                   saleResponses>>

\* the - and + buttons of a cart item: updateQuantity(id, quantity - 1 or + 1)
CartUpdateQuantity(p, delta) ==
    /\ showSaleModal
    /\ InCart(cart, p)
    /\ LET result == UpdateQuantityResult(p, FindItem(cart, p).quantity + delta)
       IN  cart' = result.cart /\ saleError' = result.error
    /\ UNCHANGED <<cartFrame, saleLoading, revision, messages, nextId, modalOps, saleSubmitting,
                   showSaleModal, saleProducts, customerName, saleLoads, saleRequests,
                   saleResponses>>

\* the remove button of a cart item: removeFromCart
CartRemove(p) ==
    /\ showSaleModal
    /\ InCart(cart, p)
    /\ cart' = WithoutItem(cart, p)
    /\ UNCHANGED <<cartFrame, saleLoading, revision, messages, nextId, modalOps, saleSubmitting,
                   showSaleModal, saleProducts, saleError, customerName,
                   saleLoads, saleRequests,
                   saleResponses>>

CartSubmit_IgnoresSubmitting ==
    /\ showSaleModal
    /\ IF Len(cart) = 0
       THEN /\ saleError' = SaleError("empty cart")
            /\ UNCHANGED <<saleSubmitting, saleRequests, modalOps>>
       ELSE IF revision = 1 /\ customerName = ""
       THEN /\ saleError' = SaleError("customer name")
            /\ UNCHANGED <<saleSubmitting, saleRequests, modalOps>>
       ELSE /\ modalOps < MaxRequests
            /\ modalOps' = modalOps + 1
            /\ saleSubmitting' = TRUE
            /\ saleError' = NoSaleError
            /\ saleRequests' = saleRequests \cup
                    {[n |-> modalOps + 1, items |-> OrderItemsOf(cart)]}
    /\ UNCHANGED <<cartFrame, saleLoading, revision, messages, nextId,
                   showSaleModal, saleProducts, cart, customerName, saleLoads,
                   saleResponses>>

\* handleSubmit up to the await. The button is disabled while submitting;
\* with an empty cart the check of the handler itself applies
CartSubmit ==
    /\ showSaleModal
    /\ ~saleSubmitting
    /\ IF Len(cart) = 0
       THEN /\ saleError' = SaleError("empty cart")
            /\ UNCHANGED <<saleSubmitting, saleRequests, modalOps>>
       ELSE IF revision = 1 /\ customerName = ""
       THEN /\ saleError' = SaleError("customer name")
            /\ UNCHANGED <<saleSubmitting, saleRequests, modalOps>>
       ELSE /\ modalOps < MaxRequests
            /\ modalOps' = modalOps + 1
            /\ saleSubmitting' = TRUE
            /\ saleError' = NoSaleError
            /\ saleRequests' = saleRequests \cup
                    {[n |-> modalOps + 1, items |-> OrderItemsOf(cart)]}
    /\ UNCHANGED <<cartFrame, saleLoading, revision, messages, nextId,
                   showSaleModal, saleProducts, cart, customerName, saleLoads,
                   saleResponses>>

\* the X and Cancelar buttons (onClose); they are never disabled
CartClose ==
    /\ showSaleModal
    /\ showSaleModal' = FALSE
    /\ UNCHANGED <<cartFrame, saleLoading, revision, messages, nextId, modalOps, saleSubmitting,
                   saleProducts, cart, saleError, customerName, saleLoads, saleRequests,
                   saleResponses>>

\* the fetch of handleSubmit settles: response.ok or not
CreateOrderAnswers(req, ok) ==
    /\ req \in saleRequests
    /\ saleRequests' = saleRequests \ {req}
    /\ saleResponses' = saleResponses \cup {[n |-> req.n, ok |-> ok]}
    /\ UNCHANGED <<cartFrame, saleLoading, revision, messages, nextId, modalOps,
                   saleSubmitting, showSaleModal, saleProducts, cart, saleError,
                   customerName, saleLoads>>

CartResponse_TurnOnFailure(response) ==
    /\ response \in saleResponses
    /\ saleResponses' = saleResponses \ {response}
    /\ saleSubmitting' = FALSE
    /\ messages' = AppendAssistant(messages, nextId, "sale", "")
    /\ nextId' = nextId + 1
    /\ IF response.ok
       THEN /\ showSaleModal' = FALSE
            /\ UNCHANGED saleError
       ELSE /\ saleError' = SaleError("detail")
            /\ UNCHANGED showSaleModal
    /\ UNCHANGED <<cartFrame, saleLoading, revision, modalOps, saleProducts, cart,
                   customerName, saleLoads, saleRequests>>

\* handleSubmit after the await: onSaleCreated and onClose, or setError;
\* finally setSubmitting(false)
CartResponse(response) ==
    /\ response \in saleResponses
    /\ saleResponses' = saleResponses \ {response}
    /\ saleSubmitting' = FALSE
    /\ IF response.ok
       THEN /\ messages' = AppendAssistant(messages, nextId, "sale", "")
            /\ nextId' = nextId + 1
            /\ showSaleModal' = FALSE
            /\ UNCHANGED saleError
       ELSE /\ saleError' = SaleError("detail")
            /\ UNCHANGED <<messages, nextId, showSaleModal>>
    /\ UNCHANGED <<cartFrame, saleLoading, revision, modalOps, saleProducts, cart,
                   customerName, saleLoads, saleRequests>>

SaleNext ==
    \/ OpenSale
    \/ \E list \in ProductLists : SaleProductsLoaded(list)
    \/ SaleProductsFailed
    \/ SaleErrorExpires
    \/ \E name \in CustomerNames : SetCustomerName(name)
    \/ \E product \in saleProducts : CartAdd(product)
    \/ \E p \in SaleIds, delta \in {-1, 1} : CartUpdateQuantity(p, delta)
    \/ \E p \in SaleIds : CartRemove(p)
    \/ CartSubmit
    \/ CartClose
    \/ \E req \in saleRequests, ok \in BOOLEAN : CreateOrderAnswers(req, ok)
    \/ \E response \in saleResponses : CartResponse(response)

\* ---------------------------------------------------------- Workflow Dispatcher
\* the closed set of operations
Operations ==
    {"inventory-analysis", "sales-analysis", "business-report", "create-sale",
     "add-product", "edit-product", "delete-product", "list-inventory"}

\* the operations a structured UI action (a modal form) asks for
MutationOperations ==
    {"create-sale", "add-product", "edit-product", "delete-product"}

\* a request comes from a free-text message, whose intent can resolve to any
\* operation, or from a structured UI action
Origins == {"free text", "ui action"}

OperationsOf(origin) ==
    IF origin = "free text" THEN Operations ELSE MutationOperations

DispatchIds == 1..MaxRequests

NoDispatch ==
    [phase |-> "none", origin |-> "", op |-> "", handlerRuns |-> 0,
     envelopes |-> <<>>]

DispatchInit == dispatches = [id \in DispatchIds |-> NoDispatch]

dispatchFrame == <<chatVars, showVars, modalOps, lastOp, saleVars, productVars,
                   editVars, orderVars, renderVars, invVars, revision, authVars,
                   cartVars>>

\* a request arrives with its resolved intent
Receive(id, origin, op) ==
    /\ dispatches[id].phase = "none"
    /\ \A other \in DispatchIds : other < id => dispatches[other].phase # "none"
    /\ op \in OperationsOf(origin)
    /\ dispatches' = [dispatches EXCEPT ![id] =
            [NoDispatch EXCEPT !.phase = "received", !.origin = origin,
                               !.op = op]]
    /\ UNCHANGED dispatchFrame

ValidateParams(id) ==
    /\ dispatches[id].phase = "received"
    /\ dispatches' = [dispatches EXCEPT ![id].phase = "validating-params"]
    /\ UNCHANGED dispatchFrame

\* the handler of the operation is invoked
ExecuteHandler(id) ==
    /\ dispatches[id].phase = "validating-params"
    /\ dispatches' = [dispatches EXCEPT ![id].phase = "executing-handler",
                                        ![id].handlerRuns = @ + 1]
    /\ UNCHANGED dispatchFrame

HandlerReturns_RetriesOnFailure(id, success) ==
    /\ dispatches[id].phase = "executing-handler"
    /\ dispatches' = [dispatches EXCEPT ![id].phase =
            IF success THEN "building-envelope" ELSE "validating-params"]
    /\ UNCHANGED dispatchFrame

\* the handler returns, with success or with a failure
HandlerReturns(id, success) ==
    /\ dispatches[id].phase = "executing-handler"
    /\ dispatches' = [dispatches EXCEPT ![id].phase =
            IF success THEN "building-envelope" ELSE "building-error-envelope"]
    /\ UNCHANGED dispatchFrame

\* the response envelope is returned to the caller
ReturnEnvelope(id) ==
    /\ dispatches[id].phase \in {"building-envelope", "building-error-envelope"}
    /\ dispatches' = [dispatches EXCEPT
            ![id].phase = "done",
            ![id].envelopes = Append(@,
                IF dispatches[id].phase = "building-envelope" THEN "success"
                ELSE "error")]
    /\ UNCHANGED dispatchFrame

DispatchNext ==
    \/ \E id \in DispatchIds, origin \in Origins, op \in Operations :
            Receive(id, origin, op)
    \/ \E id \in DispatchIds : ValidateParams(id)
    \/ \E id \in DispatchIds : ExecuteHandler(id)
    \/ \E id \in DispatchIds, success \in BOOLEAN : HandlerReturns(id, success)
    \/ \E id \in DispatchIds : ReturnEnvelope(id)

\* ------------------------------------------------------------ the chat session
Init ==
    /\ ChatInit /\ OrderInit /\ RenderInit /\ InvInit /\ AddInit
    /\ AuthInit /\ SessionInit /\ CartInit /\ DispatchInit

Next ==
    \/ \E v \in InputTexts : SetInputValue(v)
    \/ \E m \in {Undefined} \cup QuickActionMessages : HandleSendMessage(m)
    \/ \E req \in chatInFlight, payload \in ChatPayloads : ChatResponse(req, payload)
    \/ \E req \in chatInFlight, failure \in ChatFailures : ChatError(req, failure)
    \/ HandleCreateSaleClick
    \/ AddToCart
    \/ RemoveFromCart
    \/ SaleHandleSubmit
    \/ SaleClose
    \/ SaleSubmitOk
    \/ SaleSubmitFail
    \/ HandleCreateProductClick
    \/ AddNewProduct
    \/ \E i \in 1..MaxRows, valid \in BOOLEAN : UpdateProduct(i, valid)
    \/ \E i \in 1..MaxRows : RemoveProduct(i)
    \/ ProductHandleSubmit
    \/ ProductHandleClose
    \/ \E failures \in 0..MaxRows : ProductBatchDone(failures)
    \/ HandleEditInventoryClick
    \/ \E p \in ProductIds : SelectProduct(p)
    \/ \E filled \in BOOLEAN : SetEditName(filled)
    \/ EditHandleSubmit
    \/ EditHandleClose
    \/ \E req \in editInFlight : EditSubmitOk(req)
    \/ \E req \in editInFlight : EditSubmitFail(req)
    \/ HandleDelete
    \/ \E req \in editInFlight : DeleteOk(req)
    \/ \E req \in editInFlight : DeleteFail(req)

Spec == Init /\ [][Next]_vars

\* the conversation, with the modals opened and closed but never submitted
ChatNext ==
    \/ \E v \in InputTexts : SetInputValue(v)
    \/ \E m \in {Undefined} \cup QuickActionMessages : HandleSendMessage(m)
    \/ \E req \in chatInFlight, payload \in ChatPayloads : ChatResponse(req, payload)
    \/ \E req \in chatInFlight, failure \in ChatFailures : ChatError(req, failure)
    \/ HandleCreateSaleClick
    \/ SaleClose
    \/ HandleCreateProductClick
    \/ ProductHandleClose
    \/ HandleEditInventoryClick
    \/ EditHandleClose

SpecChat == Init /\ [][ChatNext]_vars

\* sendChatMessage eventually returns or throws
SpecChatLive ==
    /\ SpecChat
    /\ WF_vars(\E req \in chatInFlight :
                    \/ \E payload \in ChatPayloads : ChatResponse(req, payload)
                    \/ \E failure \in ChatFailures : ChatError(req, failure))

SpecOrders == Init /\ [][OrderNext]_vars

SpecRender == Init /\ [][RenderNext]_vars

SpecEdit == Init /\ [][EditNext]_vars

SpecDelete == Init /\ [][DeleteNext]_vars

SpecProducts == Init /\ [][ProductsNext]_vars

SpecAuth == Init /\ [][AuthNext]_vars

SpecSession == Init /\ [][SessionNext]_vars

\* the effects run and the requests settle: a pending mount, redirect,
\* verification or login answer is not delayed for ever
SpecSessionLive ==
    /\ SpecSession
    /\ WF_vars(Mount)
    /\ WF_vars(HomeRedirect)
    /\ WF_vars(AuthPageRedirect)
    /\ WF_vars(\E authToken \in verifying, ok \in BOOLEAN :
                    VerifyToken(authToken, ok))
    /\ WF_vars(\E kind \in authRequests : LoginResponse(kind, FALSE))

SpecSale == Init /\ [][SaleNext]_vars

SpecDispatch == Init /\ [][DispatchNext]_vars

\* ===================================================================== claims
Ids(s) == {s[i].id : i \in DOMAIN s}
LoadingTurns == {i \in DOMAIN messages : messages[i].loading}
WhitespaceOnly(text) == text \in {"", "  "}

\* the request that settles in this step, if any
Settles(req) == req \in chatInFlight /\ req \notin chatInFlight'

\* next is prev with the turn at position k replaced by the turn t
ReplacedAt(prev, next, k, t) ==
    /\ Len(next) = Len(prev)
    /\ next[k] = t
    /\ \A j \in DOMAIN prev : j # k => next[j] = prev[j]

\* C1: when the response (or error) of a chat request arrives, the turn that
\* leaves the log is the loading placeholder created by that send, and the new
\* assistant turn takes its position, whatever the modal callbacks appended
\* in between.
C1_ResponseReplacesOwnPlaceholder ==
    [][\A req \in chatInFlight :
          Settles(req) =>
            \E k \in DOMAIN messages :
                /\ messages[k].id = req.placeholder
                /\ messages[k].loading
                /\ Len(messages') = Len(messages)
                /\ ReplacedAt(messages, messages', k, messages'[k])
                /\ messages'[k].role = "assistant"
                /\ ~messages'[k].loading
                /\ messages'[k].id \notin Ids(messages)]_vars

\* C2: at most one chat request is in flight, and handleSendMessage invoked
\* while isLoading or with empty / whitespace-only text changes nothing and
\* issues no request.
C2_SendWhilePendingOrEmptyIsNoOp ==
    [][/\ Cardinality(chatInFlight') <= 1
       /\ (/\ lastOp'.op = "handleSendMessage"
           /\ \/ isLoading
              \/ (lastOp'.message = Undefined /\ WhitespaceOnly(inputValue)))
          => UNCHANGED <<messages, inputValue, isLoading, chatInFlight,
                         requestsIssued>>]_vars

\* a quick action was invoked while a request was pending and left no turn
C2_Witness ==
    /\ lastOp.op = "handleSendMessage"
    /\ lastOp.message \in QuickActionMessages
    /\ isLoading
    /\ Cardinality(chatInFlight) = 1
    /\ \A i \in DOMAIN messages : messages[i].content.text # lastOp.message

\* C3: the log holds at most one turn with loading = TRUE, and it holds one
\* exactly when a chat request is in flight (isLoading).
C3_OneLoadingTurnIffInFlight ==
    /\ Cardinality(LoadingTurns) <= 1
    /\ (Cardinality(LoadingTurns) = 1) <=> isLoading
    /\ isLoading <=> (chatInFlight # {})

\* C4: the log is append-only: every turn that is no loading placeholder stays
\* in the log, unchanged and in the same relative order.
C4_LogAppendOnly ==
    [][/\ \A i \in DOMAIN messages :
             ~messages[i].loading =>
                 \E a \in DOMAIN messages' : messages'[a] = messages[i]
       /\ \A i, j \in DOMAIN messages :
             (i < j /\ ~messages[i].loading /\ ~messages[j].loading) =>
                 \E a, b \in DOMAIN messages' :
                     a < b /\ messages'[a] = messages[i]
                           /\ messages'[b] = messages[j]]_vars

\* C8: an accepted submit appends, in one update, the user turn with the
\* submitted text followed by a loading assistant placeholder, leaves the
\* earlier turns alone and issues exactly one request; no state shows a user
\* turn that is not followed by an assistant turn.
C8_AcceptedSubmitAppendsUserAndPlaceholder ==
    [][/\ (/\ lastOp'.op = "handleSendMessage"
           /\ ~isLoading
           /\ ~(lastOp'.message = Undefined /\ WhitespaceOnly(inputValue)))
          => LET n == Len(messages)
                 text == IF lastOp'.message # Undefined THEN lastOp'.message
                         ELSE "hola"
             IN  /\ Len(messages') = n + 2
                 /\ SubSeq(messages', 1, n) = messages
                 /\ messages'[n + 1].role = "user"
                 /\ messages'[n + 1].content.text = text
                 /\ ~messages'[n + 1].loading
                 /\ messages'[n + 2].role = "assistant"
                 /\ messages'[n + 2].loading
                 /\ requestsIssued' = requestsIssued + 1
                 /\ Cardinality(chatInFlight') = Cardinality(chatInFlight) + 1
       /\ \A k \in DOMAIN messages' :
             messages'[k].role = "user" =>
                 k < Len(messages') /\ messages'[k + 1].role = "assistant"]_vars

\* a typed text was accepted: its user turn and the placeholder end the log
C8_Witness ==
    /\ lastOp.op = "handleSendMessage"
    /\ lastOp.message = Undefined
    /\ Len(messages) = 3
    /\ messages[2].role = "user" /\ messages[2].content.text = "hola"
    /\ messages[3].loading
    /\ requestsIssued = 1

\* C9: when the chat request fails, the loading placeholder is replaced by one
\* assistant turn whose content carries the failure's message, without data,
\* charts or loading flag; no other turn is added or removed.
C9_ErrorReplacesPlaceholder ==
    [][\A req \in chatInFlight :
          (/\ Settles(req)
           /\ \E k \in DOMAIN messages' :
                 messages'[k].id = nextId /\ messages'[k].content.kind = "error")
          => \E k \in DOMAIN messages, failure \in ChatFailures :
                /\ messages[k].id = req.placeholder
                /\ ReplacedAt(messages, messages', k,
                       Message(nextId, "assistant", "error", failure, FALSE,
                               NoData, "undefined"))]_vars

\* ---------------------------------------------------------------- the orders
OffendingLine(q, items) ==
    \E i \in DOMAIN items :
        \/ items[i].product_id \notin DOMAIN q
        \/ items[i].quantity > q[items[i].product_id]

\* C5: an order with a line that exceeds the product's current stock, or that
\* names a missing product, is rejected when it is validated: no order record
\* is created and no quantity changes, the earlier lines' products included.
C5_RejectedOrderChangesNothing ==
    [][\A c \in Clients :
          (/\ txn[c].pc = "validating"
           /\ txn'[c] # txn[c]
           /\ OffendingLine(quantity, txn[c].items))
          => /\ txn'[c].pc = "idle"
             /\ txn'[c].result = "rejected"
             /\ orders' = orders
             /\ quantity' = quantity]_vars

\* a two-line order whose first line was in stock was rejected for its second
C5_Witness ==
    \E c \in Clients :
        /\ txn[c].result = "rejected"
        /\ Len(txn[c].items) = 2
        /\ txn[c].items[1] = Line(1, 3)
        /\ quantity[1] = InitialQuantity(1)
        /\ orders = <<>>

RECURSIVE SoldTotal(_, _)
SoldTotal(p, ledger) ==
    IF ledger = <<>> THEN 0
    ELSE LET items == Head(ledger).items
             sold == {i \in DOMAIN items : items[i].product_id = p}
         IN  (IF sold = {} THEN 0 ELSE items[CHOOSE i \in sold : TRUE].quantity)
             + SoldTotal(p, Tail(ledger))

RECURSIVE LineSum(_, _)
LineSum(items, pr) ==
    IF items = <<>> THEN 0
    ELSE Head(items).quantity * pr[Head(items).product_id]
         + LineSum(Tail(items), pr)

C10_VisualizationsSuppressLegacyCharts ==
    /\ ~({"chart_panel", "legacy_charts"} \subseteq rendered)
    /\ (/\ renderMessage.data.kind = "object"
        /\ renderMessage.data.visualizations \in {"empty", "nonempty"})
       => "legacy_charts" \notin rendered

\* an assistant turn with visualizations and legacy charts shows the panel only
C10_Witness ==
    /\ renderMessage.role = "assistant"
    /\ renderMessage.data.visualizations = "nonempty"
    /\ renderMessage.charts = "nonempty"
    /\ "chart_panel" \in rendered
    /\ "legacy_charts" \notin rendered

\* "has visualizations": the data object carries a visualizations list
HasVisualizations(message) ==
    /\ message.role = "assistant"
    /\ message.data.kind = "object"
    /\ message.data.visualizations \in {"empty", "nonempty"}

InventoryShaped(message) ==
    \/ message.data.analysis_type = "enhanced_inventory_analysis"
    \/ message.data.summary = "total_items"

\* C11 as stated: every assistant turn whose data has visualizations renders
\* the analysis summary and the chart panel, for every shape of data.
C11_VisualizationsRenderSummaryAndPanel ==
    HasVisualizations(renderMessage)
        => {"analysis_summary", "chart_panel"} \subseteq rendered

\* C11 as amended: an assistant turn whose data has visualizations renders the
\* analysis summary exactly when the data is an inventory analysis, and the
\* chart panel exactly when it is one and the visualizations list is non-empty.
C11_InventoryVisualizationsRenderSummaryAndPanel ==
    HasVisualizations(renderMessage)
        => /\ "analysis_summary" \in rendered <=> InventoryShaped(renderMessage)
           /\ "chart_panel" \in rendered
                <=> /\ InventoryShaped(renderMessage)
                    /\ renderMessage.data.visualizations = "nonempty"

\* an inventory analysis with an empty visualizations list: summary, no panel
C11_Witness ==
    /\ HasVisualizations(renderMessage)
    /\ InventoryShaped(renderMessage)
    /\ renderMessage.data.visualizations = "empty"
    /\ "analysis_summary" \in rendered
    /\ "chart_panel" \notin rendered

TextOnly == rendered \subseteq {"text", "spinner"}

LegacyOnlyCharts(message) ==
    /\ message.role = "assistant"
    /\ message.charts = "nonempty"
    /\ ~(message.data.kind = "object"
         /\ message.data.visualizations \in {"empty", "nonempty"})

PlainTurn(message) ==
    \/ message.role = "user"
    \/ message.data.kind = "undefined" /\ message.charts \in {"undefined", "empty"}

\* C12 as stated: an assistant turn with a non-empty legacy charts list and no
\* data.visualizations renders charts only, whatever else its data contains;
\* a turn with neither data nor charts, and every user turn, renders text only.
C12_LegacyChartsOnly ==
    /\ LegacyOnlyCharts(renderMessage)
        => /\ "legacy_charts" \in rendered
           /\ "analysis_summary" \notin rendered
           /\ "chart_panel" \notin rendered
    /\ PlainTurn(renderMessage) => TextOnly

\* C12 as amended: such a turn renders the legacy charts and no chart panel,
\* and the analysis summary card exactly when its data is a non-empty object
\* that is an inventory analysis; a turn with neither data nor charts, and
\* every user turn, renders text only.
C12_LegacyChartsAndInventorySummary ==
    /\ LegacyOnlyCharts(renderMessage)
        => /\ "legacy_charts" \in rendered
           /\ "chart_panel" \notin rendered
           /\ "analysis_summary" \in rendered
                <=> /\ renderMessage.data.kind = "object"
                    /\ InventoryShaped(renderMessage)
    /\ PlainTurn(renderMessage) => TextOnly

\* legacy charts next to inventory data without visualizations: both are shown
C12_Witness ==
    /\ LegacyOnlyCharts(renderMessage)
    /\ renderMessage.data.kind = "object"
    /\ renderMessage.data.visualizations = "absent"
    /\ InventoryShaped(renderMessage)
    /\ rendered = {"text", "legacy_charts", "analysis_summary"}


\* ------------------------------------------------------------------- C13
\* the edit requests sent, and the edit requests handled, by a step
EditSent == {req \in editRequests' \ editRequests : req.kind = "edit"}

EditServed == {req \in editRequests \ editRequests' : req.kind = "edit"}

\* C13: an edit request of EditInventoryModal carries name, price, quantity
\* or category only when the form value differs from the value the form was
\* filled with from the loaded product, and minimum_stock or maximum_stock
\* only when filled in; edit_product changes only fields the request carries,
\* and only of the product the request names, so a field the user did not
\* change keeps its stored value
C13_SparsePatchKeepsUnchangedFields ==
    [][/\ \A req \in EditSent :
            /\ req.product_id = editSelected.id
            /\ \A f \in {"name", "price", "quantity", "category"} :
                    f \in DOMAIN req.fields
                        => editForm[f] # FormOf(editSelected)[f]
            /\ \A f \in {"minimum_stock", "maximum_stock"} :
                    f \in DOMAIN req.fields => editForm[f] # ""
       /\ \A req \in EditServed :
            \A p \in InvIds : \A f \in PatchFields :
                store'[p][f] # store[p][f]
                    => p = req.product_id /\ f \in DOMAIN req.fields
      ]_vars

\* an edit that changed only the name was applied to a product whose stock
\* had been decremented after the form was loaded: the stale quantity of the
\* form did not overwrite the stored one
C13_Witness ==
    /\ store[1].name = "b"
    /\ store[1].price = 1000
    /\ store[1].quantity = 2
    /\ editSelected.stock_quantity = 5
    /\ \E resp \in editResponses : resp.kind = "edit" /\ resp.ok

\* ------------------------------------------------------------------- C14
\* the delete requests handled, and the delete responses consumed, by a step
DeleteServed == {req \in editRequests \ editRequests' : req.kind = "delete"}

DeleteSettled == {resp \in editResponses \ editResponses' : resp.kind = "delete"}

\* C14: a delete of a product id that exists removes the product and
\* succeeds; a delete of an id that was deleted before reports NotFound and
\* changes nothing, whether it comes from EditInventoryModal or from the
\* chat; a deleted id never comes back, and EditInventoryModal reports the
\* failure instead of a deletion
C14_SecondDeleteReportsNotFound ==
    [][/\ \A req \in DeleteServed :
            IF store[req.product_id].exists
            THEN /\ ~store'[req.product_id].exists
                 /\ Response(req, TRUE, "") \in editResponses'
            ELSE /\ store' = store
                 /\ Response(req, FALSE, "NotFound") \in editResponses'
       /\ dispatchOutcome' # dispatchOutcome =>
            IF dispatchOutcome' = "deleted"
            THEN \E p \in InvIds : store[p].exists /\ ~store'[p].exists
            ELSE dispatchOutcome' = "NotFound" /\ store' = store
       /\ \A p \in InvIds :
            /\ store[p].exists /\ ~store'[p].exists
                => \/ dispatchOutcome' = "deleted"
                   \/ \E req \in DeleteServed : req.product_id = p
            /\ p < nextProductId /\ ~store[p].exists => ~store'[p].exists
       /\ \A resp \in DeleteSettled :
            ~resp.ok => /\ messages' = messages
                        /\ editError' = "NotFound"
                        /\ editProducts' = editProducts
      ]_vars

\* the product was deleted from the chat, and the delete that
\* EditInventoryModal then sent for the same id was answered NotFound
C14_Witness ==
    /\ dispatchOutcome = "deleted"
    /\ ~store[1].exists
    /\ \E resp \in editResponses :
            /\ resp.kind = "delete" /\ resp.product_id = 1
            /\ ~resp.ok /\ resp.detail = "NotFound"

\* ------------------------------------------------------------------- C15
\* the add-product requests handled by a step
AddServed == addRequests \ addRequests'

\* the row of CreateProductModal whose request is under way
RowInFlight == addLoop.rows[addLoop.pos]

\* C15: an add-product request with a non-positive price or a negative
\* quantity is rejected with a validation error and creates no product, and
\* whenever a request of CreateProductModal creates a product, the price
\* entered in its row is neither missing nor 0
C15_NoProductForMissingOrZeroPrice ==
    [][/\ \A req \in AddServed :
            req.price <= 0 \/ req.quantity < 0
                => /\ store' = store
                   /\ \E resp \in addResponses' :
                        ~resp.ok /\ resp.detail = "ValidationError"
       /\ nextProductId' # nextProductId
            => /\ addLoop.active
               /\ RowInFlight.price # NoValue
               /\ RowInFlight.price > 0
      ]_vars

\* ------------------------------------------------------------------- C16
\* the chat turn the step appended
LastTurn == messages'[Len(messages')]

\* C16: CreateProductModal sends the requests of the rows that passed
\* validation one at a time and in list order; a failed request is recorded
\* and the next row is sent; when the last row has been answered, one chat
\* turn lists the names of the rows that succeeded and, with their reasons,
\* of those that failed, as many as there were rows, and the modal closes
\* exactly when none failed
C16_BatchReportsPartialSuccess ==
    [][/\ ~addLoop.active /\ addLoop'.active
            => /\ addLoop'.rows = addRows /\ addLoop'.pos = 1
               /\ ValidationErrors(revision, addRows) = {}
               /\ addRequests' = {ProductData(revision, addRows[1])}
               /\ messages' = messages
       /\ addLoop.active /\ addLoop' # addLoop /\ addLoop'.active
            => /\ addLoop'.rows = addLoop.rows
               /\ addLoop'.pos = addLoop.pos + 1
               /\ Len(addLoop'.results) + Len(addLoop'.failures) = addLoop.pos
               /\ addRequests' =
                    {ProductData(revision, addLoop.rows[addLoop.pos + 1])}
               /\ messages' = messages
       /\ addLoop.active /\ ~addLoop'.active
            => /\ addLoop.pos = Len(addLoop.rows)
               /\ Len(messages') = Len(messages) + 1
               /\ LastTurn.role = "assistant"
               /\ LastTurn.content.kind = "products"
               /\ Len(LastTurn.content.text.succeeded)
                    + Len(LastTurn.content.text.failed) = Len(addLoop.rows)
               /\ \E ok \in [1..Len(addLoop.rows) -> BOOLEAN] :
                    /\ LastTurn.content.text.succeeded =
                            SelectSeq([i \in 1..Len(addLoop.rows) |->
                                        IF ok[i] THEN addLoop.rows[i].name
                                        ELSE "-"],
                                      LAMBDA name : name # "-")
                    /\ Len(LastTurn.content.text.failed) =
                            Cardinality({i \in DOMAIN ok : ~ok[i]})
               /\ \A i \in 1..Len(LastTurn.content.text.failed) :
                    /\ LastTurn.content.text.failed[i][1] \in
                            {addLoop.rows[j].name : j \in 1..Len(addLoop.rows)}
                    /\ LastTurn.content.text.failed[i][2] # ""
               /\ showProductModal' = FALSE
                    <=> LastTurn.content.text.failed = <<>>
               /\ addRequests' = {} /\ addResponses' = {}
       /\ addLoop.active => Cardinality(addRequests \cup addResponses) = 1
       /\ ~addLoop.active => addRequests = {} /\ addResponses = {}
      ]_vars

\* a batch of two rows was reported with one product added and one failed,
\* and the modal stayed open
C16_Witness ==
    /\ Len(messages) > 1
    /\ messages[Len(messages)].content.kind = "products"
    /\ Len(messages[Len(messages)].content.text.succeeded) = 1
    /\ Len(messages[Len(messages)].content.text.failed) = 1
    /\ messages[Len(messages)].content.text.failed[1][2] = "ConflictError"
    /\ showProductModal
    /\ addError = "partial"
    /\ nextProductId = 3

\* ------------------------------------------------------------------- C18
\* C18: the category names of the stored products are storage names of the
\* one mapping EditInventoryModal reads them with: the display name of a
\* stored category maps back to that stored category, for the products
\* CreateProductModal wrote as for the others
C18_StoredCategoryRoundTrips ==
    \A p \in InvIds :
        store[p].exists
            => ToStorage(ToDisplay(store[p].category)) = store[p].category

\* ------------------------------------------------------------------- C17
\* C17: whenever the client has handled a response with status 401, whether
\* of a chat request sent through ApiClient.request or of a direct fetch of a
\* modal, the browser is on the login page /auth
C17_Every401RedirectsToAuth ==
    [][\A caller \in Callers :
            /\ fetchState[caller].phase = "responded"
            /\ fetchState[caller].status = 401
            /\ fetchState'[caller].phase = "idle"
            => location' = "/auth"
      ]_vars

\* ------------------------------------------------------------------- C19
\* the create-order requests the step sent
SaleSent == saleRequests' \ saleRequests

\* C19: a create-order request of CreateSaleModal carries the items of the
\* cart, which are not empty, have quantities of at least 1 and name every
\* product once; handleSubmit with an empty cart sends nothing and sets the
\* inline error
C19_OrderRequestsAreWellFormed ==
    [][/\ \A req \in SaleSent :
            /\ req.items = OrderItemsOf(cart)
            /\ Len(req.items) > 0
            /\ \A i \in 1..Len(req.items) : req.items[i].quantity >= 1
            /\ \A i, j \in 1..Len(req.items) :
                    req.items[i].product_id = req.items[j].product_id => i = j
       /\ Len(cart) = 0 => SaleSent = {}
       /\ saleError' # saleError /\ saleError' = SaleError("empty cart")
            => /\ Len(cart) = 0
               /\ saleRequests' = saleRequests
               /\ saleSubmitting' = saleSubmitting
       /\ \A i \in 1..Len(cart') : cart'[i].quantity >= 1
      ]_vars

\* a request with two items is in flight, one of them with quantity 2
C19_Witness ==
    \E req \in saleRequests :
        /\ Len(req.items) = 2
        /\ req.items[1].quantity = 2
        /\ req.items[2].quantity = 1

\* ------------------------------------------------------------------- C20
\* the state machine of a request: the phases that can follow a phase
NextPhases(phase) ==
    CASE phase = "none" -> {"received"}
      [] phase = "received" -> {"validating-params"}
      [] phase = "validating-params" -> {"executing-handler"}
      [] phase = "executing-handler" ->
            {"building-envelope", "building-error-envelope"}
      [] phase = "building-envelope" -> {"done"}
      [] phase = "building-error-envelope" -> {"done"}
      [] OTHER -> {}

\* C20: a dispatched request, from free text or from a structured UI action,
\* moves only along received, validating-params, executing-handler, then
\* building-envelope or building-error-envelope, then done; its handler has
\* run exactly once and exactly one envelope, of the kind of the branch
\* taken, has been produced when it is done, and neither earlier nor again
C20_DispatchRunsHandlerOnceAndAnswersOnce ==
    [][\A id \in DispatchIds :
        LET before == dispatches[id]
            after == dispatches'[id]
        IN  /\ after.phase # before.phase
                => after.phase \in NextPhases(before.phase)
            /\ after.handlerRuns = before.handlerRuns
                    + (IF after.phase # before.phase
                          /\ after.phase = "executing-handler" THEN 1 ELSE 0)
            /\ Len(after.envelopes) = Len(before.envelopes)
                    + (IF after.phase # before.phase /\ after.phase = "done"
                       THEN 1 ELSE 0)
            /\ before.phase # "none"
                => after.op = before.op /\ after.origin = before.origin
            /\ before.phase = "building-envelope" /\ after.phase = "done"
                => after.envelopes = <<"success">>
            /\ before.phase = "building-error-envelope" /\ after.phase = "done"
                => after.envelopes = <<"error">>
            /\ before.phase # "none" => before.op \in Operations
            /\ before.phase \in {"none", "received", "validating-params"}
                => before.handlerRuns = 0
            /\ before.phase \in {"executing-handler", "building-envelope",
                                 "building-error-envelope", "done"}
                => before.handlerRuns = 1
            /\ before.phase = "done" <=> Len(before.envelopes) = 1
            /\ Len(before.envelopes) <= 1
      ]_vars

\* a request from free text was answered with a success envelope and one
\* from a structured UI action with an error envelope
C20_Witness ==
    \E id, other \in DispatchIds :
        /\ dispatches[id].phase = "done"
        /\ dispatches[id].origin = "free text"
        /\ dispatches[id].envelopes = <<"success">>
        /\ dispatches[id].handlerRuns = 1
        /\ dispatches[other].phase = "done"
        /\ dispatches[other].origin = "ui action"
        /\ dispatches[other].envelopes = <<"error">>
        /\ dispatches[other].handlerRuns = 1

\* ------------------------------------------------------------------- C21
\* C21: in every reachable state of CreateSaleModal each cart item has a
\* quantity of at least 1 and at most the stock_quantity of its product in
\* the list of products currently loaded, also when the modal was closed
\* and reopened so that several loadProducts calls resolve in any order.
C21_CartQuantityWithinLoadedStock ==
    \A i \in 1..Len(cart) :
        /\ cart[i].quantity >= 1
        /\ \A product \in saleProducts :
               product.id = cart[i].product_id
                   => cart[i].quantity <= product.stock_quantity

\* ------------------------------------------------------------------- C22
\* the answers handleSubmit of CreateSaleModal took up in the step
SaleAnswered == saleResponses \ saleResponses'

\* C22: a sale submission appends a turn to the chat log exactly when the
\* server reports success: on success one assistant turn is appended and
\* the modal is closed, on failure the log and the modal stay as they are
\* and the error is shown inline; submitting is false afterwards either way
C22_SaleTurnIffSuccess ==
    [][/\ \A response \in SaleAnswered :
            /\ saleSubmitting' = FALSE
            /\ response.ok =>
                /\ Len(messages') = Len(messages) + 1
                /\ SubSeq(messages', 1, Len(messages)) = messages
                /\ messages'[Len(messages')].role = "assistant"
                /\ messages'[Len(messages')].content.kind = "sale"
                /\ ~showSaleModal'
            /\ ~response.ok =>
                /\ messages' = messages
                /\ showSaleModal' = showSaleModal
                /\ saleError' = SaleError("detail")
       /\ messages' # messages => \E response \in SaleAnswered : response.ok
      ]_vars

\* a first sale succeeded and left its turn, a second one failed and left
\* the modal open with the inline error
C22_Witness ==
    /\ \E i \in 1..Len(messages) : messages[i].content.kind = "sale"
    /\ showSaleModal
    /\ saleError = SaleError("detail")
    /\ ~saleSubmitting
    /\ modalOps = MaxRequests

\* ------------------------------------------------------------------- C23
\* C23: in CreateSaleModal a request to raise the quantity of a cart item
\* above the stock_quantity of its product leaves the cart as it is (items,
\* quantities and subtotals) and sets an error naming the product and the
\* maximum available; no step sets that error and changes the cart
C23_RaiseAboveStockKeepsCart ==
    [][/\ \A product \in saleProducts :
            InCart(cart, product.id)
            /\ FindItem(cart, product.id).quantity + 1 > product.stock_quantity
                => LET result == UpdateQuantityResult(product.id,
                                    FindItem(cart, product.id).quantity + 1)
                   IN  /\ result.cart = cart
                       /\ result.error.kind = "stock"
                       /\ result.error.product = product.id
                       /\ result.error.max = product.stock_quantity
       /\ saleError' # saleError /\ saleError'.kind = "stock"
            => /\ cart' = cart
               /\ \E product \in saleProducts :
                    /\ saleError' = StockError(product)
                    /\ InCart(cart, product.id)
                    /\ FindItem(cart, product.id).quantity + 1
                            > product.stock_quantity
      ]_vars

\* the error is shown for a product that is in the cart with all its stock
C23_Witness ==
    \E product \in saleProducts :
        /\ saleError = StockError(product)
        /\ InCart(cart, product.id)
        /\ FindItem(cart, product.id).quantity = product.stock_quantity
        /\ product.stock_quantity = 2

\* ------------------------------------------------------------------- C24
\* the places of the rows whose add-product request the step sends
RowsSent ==
    IF addLoop'.active /\ (~addLoop.active \/ addLoop'.pos # addLoop.pos)
    THEN {addLoop'.pos}
    ELSE {}

\* C24: within one session of CreateProductModal no add-product request is
\* sent for a row whose request has already succeeded, so every row leads
\* to at most one successful request also when the batch is submitted again
\* after a partial failure
C24_SucceededRowsAreNotSentAgain ==
    [][RowsSent \cap addSucceeded = {}]_vars

\* ------------------------------------------------------------------- C25
\* the requests of EditInventoryModal in flight, by kind
EditInFlightOf(kind) == {req \in editInFlight : req.kind = kind}

\* C25: EditInventoryModal never has an edit-product request and a
\* delete-product request in flight at once for the same product, and never
\* two requests of the same kind in flight at once
C25_EditAndDeleteExcludeEachOther ==
    /\ \A edit \in EditInFlightOf("edit"), delete \in EditInFlightOf("delete") :
            edit.product # delete.product
    /\ Cardinality(EditInFlightOf("edit")) <= 1
    /\ Cardinality(EditInFlightOf("delete")) <= 1

\* ------------------------------------------------------------------- C26
\* the create-order requests of CreateSaleModal in flight: sent and not yet
\* answered, or answered with handleSubmit still to take the answer up
SaleInFlight == Cardinality(saleRequests) + Cardinality(saleResponses)

\* C26: CreateSaleModal never has two create-order requests in flight at
\* once, also when the modal is closed and opened again while a submission
\* is pending; submitting is true as long as one is in flight
C26_OneOrderRequestInFlight ==
    /\ SaleInFlight <= 1
    /\ SaleInFlight = 1 => saleSubmitting

\* the modal was opened again, and is loading its products, while the
\* request of the earlier submission is still pending
C26_Witness ==
    /\ SaleInFlight = 1
    /\ showSaleModal
    /\ saleLoading
    /\ cart = <<>>

\* ------------------------------------------------------------------- C27
\* C27: EditInventoryModal sends a DELETE only for the selected product and
\* only with confirmDelete set; the click that sets confirmDelete sends
\* nothing and leaves the selection alone; and every step that selects a
\* product clears confirmDelete, so a confirmation given for one product
\* never authorises the deletion of another, also across closing and
\* reopening the modal
C27_DeleteNeedsConfirmationForSameProduct ==
    [][/\ deleting' /\ ~deleting
            => /\ confirmDelete
               /\ selectedProduct # NoProduct
               /\ selectedProduct' = selectedProduct
               /\ editInFlight' \ editInFlight
                    = {[kind |-> "delete", product |-> selectedProduct]}
       /\ \A req \in editInFlight' \ editInFlight :
            req.kind = "delete" => deleting' /\ ~deleting
       /\ confirmDelete' /\ ~confirmDelete
            => /\ editInFlight' = editInFlight
               /\ deleting' = deleting
               /\ selectedProduct # NoProduct
               /\ selectedProduct' = selectedProduct
       /\ selectedProduct' # selectedProduct /\ selectedProduct' # NoProduct
            => ~confirmDelete'
      ]_vars

\* the DELETE of the second product is in flight, sent with the second
\* product selected and confirmed
C27_Witness ==
    /\ [kind |-> "delete", product |-> 2] \in editInFlight
    /\ selectedProduct = 2
    /\ confirmDelete
    /\ deleting

\* ------------------------------------------------------------------- C29
\* C29: in every reachable state of AuthProvider user and token are both
\* set or both null, so that isAuthenticated holds exactly when a token is
\* held; the cookies are set together as well
C29_UserAndTokenSetTogether ==
    /\ user <=> token # NoToken
    /\ IsAuthenticated <=> token # NoToken
    /\ cookies.auth_user <=> cookies.auth_token # NoToken

\* ------------------------------------------------------------------- C28
\* the client is on the /auth page with user, token and both cookies cleared
Settled ==
    /\ location = "/auth"
    /\ ~user
    /\ token = NoToken
    /\ cookies = NoCookies

\* C28: once the server has refused the stored token (GET /auth/me failed
\* or a request of ApiClient got status 401) the client eventually is on
\* /auth with user, token and both cookies cleared; it stays there until a
\* login or register succeeds; and the redirects of Home and AuthPage come
\* to an end
C28_InvalidTokenEndsOnAuthPage ==
    /\ rejected ~> Settled
    /\ [][rejected /\ Settled => Settled' \/ token' # NoToken]_vars
    /\ <>[][location' = location]_vars

\* the token was refused and the client has come to rest on /auth, the
\* provider mounted and nothing pending
C28_Witness ==
    /\ rejected
    /\ Settled
    /\ mounted
    /\ verifying = {}
    /\ authRequests = {}
    /\ StoredToken \notin validTokens

\* ------------------------------------------------------------------- C30
\* C30: every accepted chat send re-enables the input in the end: given
\* that the request returns or throws, isLoading becomes false again, on
\* the success path and on the error path alike, and isLoading is never
\* true while no request is in flight
C30_LoadingEndsWithTheRequest ==
    /\ [](isLoading => chatInFlight # {})
    /\ isLoading ~> ~isLoading
    /\ [][chatInFlight' # chatInFlight /\ chatInFlight' \subseteq chatInFlight
            => ~isLoading']_vars

\* a request has failed and one has succeeded, and the input is enabled
C30_Witness ==
    /\ ~isLoading
    /\ chatInFlight = {}
    /\ \E i \in 1..Len(messages) : messages[i].content.kind = "error"
    /\ \E i \in 1..Len(messages) : messages[i].content.kind = "response"

====
